---------------------------- MODULE Spec2Model ----------------------------
(***************************************************************************)
(* Model of the message protection pipeline of the Yueling chat server     *)
(* (server/src/utils/crypto.rs): CryptoService with its key constructors,  *)
(* encrypt and decrypt and their helpers.                                  *)
(*                                                                         *)
(* Bytes are the naturals 0..255 and byte buffers are sequences of them.   *)
(* Indices stored in the metadata (permutation values, padding positions)  *)
(* are 0-based as in the code; a TLA+ sequence is indexed from 1, so an    *)
(* access to element k of a Vec reads position k + 1.                      *)
(*                                                                         *)
(* The three library primitives are replaced by small stand-ins that keep  *)
(* the property the code relies on:                                        *)
(*   SHA-256      a 32-byte digest computed by a rolling hash;             *)
(*   ChaCha20Rng  a deterministic word stream that is a function of its    *)
(*                seed and of the number of words drawn so far;            *)
(*   AES-256-GCM  a counter-mode stream plus a 16-byte tag over key, nonce *)
(*                and ciphertext.  The tag is a weighted sum modulo a      *)
(*                prime, so it changes when any single byte of the nonce   *)
(*                or of the ciphertext changes (as GHASH does for a        *)
(*                non-zero hash key) and it separates the keys of the      *)
(*                model, which differ in one byte (the real tag separates  *)
(*                two keys up to a 2^-128 forgery chance).                 *)
(***************************************************************************)
EXTENDS Integers, Sequences, FiniteSets, TLC

(***************************************************************************)
(* Program constants.                                                      *)
(***************************************************************************)
BLOCK_SIZE == 16

KEY_LEN == 32

NONCE_LEN == 12

TAG_LEN == 16

DIGEST_LEN == 32

MAX_METADATA_LEN == 65535

(***************************************************************************)
(* Bounds of the model.                                                    *)
(***************************************************************************)
NumKeys == 2

MaxPlainLen == 5

NumNonces == 2

MaxCut == 2

MaxOver == 2

MaxBlocks == 3

(***************************************************************************)
(* Results: Ok(v) or Err(e), as Result<_, Box<dyn Error>>.  An error is    *)
(* identified by the message the code builds it from.                      *)
(***************************************************************************)
Ok(v) == [ok |-> TRUE, val |-> v]

Err(e) == [ok |-> FALSE, err |-> e]

(***************************************************************************)
(* Byte arithmetic.                                                        *)
(***************************************************************************)
Byte == 0..255

RECURSIVE XorBits(_, _, _)
XorBits(a, b, n) ==
    IF n = 0 THEN 0
    ELSE ((a + b) % 2) + 2 * XorBits(a \div 2, b \div 2, n - 1)

Xor(a, b) == XorBits(a, b, 8)

Take(s, n) == SubSeq(s, 1, n)

Drop(s, n) == SubSeq(s, n + 1, Len(s))

RECURSIVE Concat(_)
Concat(ss) == IF ss = <<>> THEN <<>> ELSE Head(ss) \o Concat(Tail(ss))

\* The sum of (off + i) * bytes[i] over the positions i of bytes, halving the
\* range so that the evaluation stays shallow.
RECURSIVE WSumRange(_, _, _, _)
WSumRange(bytes, lo, hi, off) ==
    IF lo > hi THEN 0
    ELSE IF lo = hi THEN (off + lo) * bytes[lo]
    ELSE LET mid == (lo + hi) \div 2
         IN  WSumRange(bytes, lo, mid, off) + WSumRange(bytes, mid + 1, hi, off)

WSum(bytes, off) == WSumRange(bytes, 1, Len(bytes), off)

(***************************************************************************)
(* Sha256 (stand-in): the digest of a byte buffer, DIGEST_LEN bytes.       *)
(***************************************************************************)
Sha256(bytes) ==
    LET h == (7 + 31 * Len(bytes) + WSum(bytes, 130)) % 65521
    IN  [i \in 1..DIGEST_LEN |->
            ((h \div (2 ^ (8 * (i % 2)))) + 37 * i) % 256]

(***************************************************************************)
(* ChaCha20Rng (stand-in).  A generator is [seed, pos]: the word it yields *)
(* is a function of the seed and of the number of words drawn so far.  The *)
(* words of the stand-in stay below 2^16 so that every product fits the    *)
(* model checker's integers; the code only uses a word modulo 3, modulo a  *)
(* block count, or as four bytes of a decoy block.                         *)
(***************************************************************************)
FromSeed(seed) == [seed |-> (11 + WSum(seed, 3)) % 65536, pos |-> 0]

RngWord(rng) ==
    LET w == (((rng.seed + 40503 * (rng.pos + 1)) % 65536) * 25173 + 13849)
                % 65536
    IN  (w \div 256) + 256 * (w % 256)

NextU32(rng) == [val |-> RngWord(rng), rng |-> [rng EXCEPT !.pos = @ + 1]]

\* fill_bytes on a 16-byte buffer: four words, each little-endian.
FillBlock(rng) ==
    LET w(k) == RngWord([rng EXCEPT !.pos = @ + k])
    IN  [val |-> [i \in 1..BLOCK_SIZE |->
                    (w((i - 1) \div 4) \div (2 ^ (8 * ((i - 1) % 4)))) % 256],
         rng |-> [rng EXCEPT !.pos = @ + 4]]

(***************************************************************************)
(* Key derivations.                                                        *)
(***************************************************************************)
RngLabel ==
    <<100, 101, 116, 101, 114, 109, 105, 110, 105, 115, 116, 105, 99, 45,
      114, 110, 103, 45, 115, 101, 101, 100>>

KeystreamLabel ==
    <<112, 114, 105, 118, 97, 116, 101, 45, 97, 108, 103, 111, 114, 105,
      116, 104, 109, 45, 107, 101, 121, 115, 116, 114, 101, 97, 109>>

DeriveRng(key) == FromSeed(Sha256(RngLabel \o key))

RECURSIVE KeystreamLoop(_, _, _)
KeystreamLoop(keystream, seed, length) ==
    IF Len(keystream) < length
    THEN KeystreamLoop(keystream \o seed, Sha256(seed), length)
    ELSE Take(keystream, length)

DeriveKeystream(key, length) ==
    KeystreamLoop(<<>>, Sha256(KeystreamLabel \o key), length)

PrivateEncrypt(key, data) ==
    LET keystream == DeriveKeystream(key, Len(data))
    IN  [i \in 1..Len(data) |-> Xor(data[i], keystream[i])]

PrivateDecrypt(key, data) == PrivateEncrypt(key, data)

(***************************************************************************)
(* Aes256Gcm (stand-in) and the two wrappers around it.                    *)
(***************************************************************************)
GcmTag(key, nonce, ct) ==
    LET m == (WSum(key, 0) + WSum(nonce, KEY_LEN)
              + WSum(ct, KEY_LEN + NONCE_LEN) + 7 * Len(ct) + 1) % 65521
    IN  [i \in 1..TAG_LEN |->
            IF i = 1 THEN m \div 256
            ELSE IF i = 2 THEN m % 256
            ELSE (m * i + i) % 256]

\* cipher.encrypt(&nonce, plaintext): ciphertext followed by the tag.
GcmEncrypt(key, nonce, plaintext) ==
    LET base == (WSum(key, 0) + 3 * WSum(nonce, 0)) % 256
        ct == [j \in 1..Len(plaintext) |->
                    (plaintext[j] + base + 13 * j) % 256]
    IN  ct \o GcmTag(key, nonce, ct)

\* A decryption that strips the tag and does not verify it.
GcmDecryptUnverified(key, nonce, data) ==
    IF Len(data) < TAG_LEN THEN Err("aead")
    ELSE LET ct == Take(data, Len(data) - TAG_LEN)
             base == (WSum(key, 0) + 3 * WSum(nonce, 0)) % 256
         IN  Ok([j \in 1..Len(ct) |->
                    (ct[j] + 256 * (j + 1) - base - 13 * j) % 256])

\* cipher.decrypt(nonce, ciphertext): the plaintext, or an error when the
\* buffer is shorter than a tag or the tag does not verify.
GcmDecrypt(key, nonce, data) ==
    IF Len(data) < TAG_LEN THEN Err("aead")
    ELSE LET ct == Take(data, Len(data) - TAG_LEN)
             tag == Drop(data, Len(data) - TAG_LEN)
             base == (WSum(key, 0) + 3 * WSum(nonce, 0)) % 256
         IN  IF tag # GcmTag(key, nonce, ct) THEN Err("aead")
             ELSE Ok([j \in 1..Len(ct) |->
                        (ct[j] + 256 * (j + 1) - base - 13 * j) % 256])

AesEncrypt(key, nonce, plaintext) == nonce \o GcmEncrypt(key, nonce, plaintext)

\* aes_decrypt without the length check: split_at(12) panics on a shorter
\* buffer.
AesDecryptUnchecked(key, data) ==
    IF Len(data) < NONCE_LEN THEN Err("panic")
    ELSE LET r == GcmDecrypt(key, Take(data, NONCE_LEN), Drop(data, NONCE_LEN))
         IN  IF r.ok THEN r ELSE Err("aes_decrypt_failed")

AesDecrypt(key, data) ==
    IF Len(data) < NONCE_LEN THEN Err("nonce_missing")
    ELSE LET r == GcmDecrypt(key, Take(data, NONCE_LEN), Drop(data, NONCE_LEN))
         IN  IF r.ok THEN r ELSE Err("aes_decrypt_failed")

(***************************************************************************)
(* Blocks.                                                                 *)
(***************************************************************************)
Zeros(n) == [i \in 1..n |-> 0]

\* data.chunks(block_size), the last chunk zero-filled to block_size.
SplitIntoBlocks(data, block_size) ==
    LET n == (Len(data) + block_size - 1) \div block_size
        chunk(k) == SubSeq(data, (k - 1) * block_size + 1,
                           IF k * block_size < Len(data)
                           THEN k * block_size ELSE Len(data))
    IN  [k \in 1..n |-> chunk(k) \o Zeros(block_size - Len(chunk(k)))]

MergeBlocks(blocks, block_size) == Concat(blocks)

Swap(s, i, j) == [s EXCEPT ![i] = s[j], ![j] = s[i]]

\* A step that copies perm[j] over perm[i] where the code swaps the two.
PermSwapCopy(perm, i, draw) ==
    LET j == draw % (i + 1)
    IN  IF i >= Len(perm) \/ j >= Len(perm) THEN Err("panic")
        ELSE Ok([perm EXCEPT ![i + 1] = perm[j + 1]])

\* One turn of the loop: j = draw % (i + 1); perm.swap(i, j), which panics
\* on an index outside perm.
PermSwap(perm, i, draw) ==
    LET j == draw % (i + 1)
    IN  IF i >= Len(perm) \/ j >= Len(perm) THEN Err("panic")
        ELSE Ok(Swap(perm, i + 1, j + 1))

\* for i in (1..len).rev(): j = next_u32 % (i + 1); perm.swap(i, j)
RECURSIVE PermutationLoop(_, _, _)
PermutationLoop(perm, i, rng) ==
    IF i < 1 THEN [perm |-> perm, rng |-> rng]
    ELSE LET d == NextU32(rng)
         IN  PermutationLoop(PermSwap(perm, i, d.val).val, i - 1, d.rng)

GeneratePermutation(len, rng) ==
    PermutationLoop([k \in 1..len |-> k - 1], len - 1, rng)

\* A shuffle that writes through the permutation (shuffled[perm[k]] is
\* blocks[k]) where the code reads through it.
ApplyPermutationScatter(blocks, permutation) ==
    [k \in 1..Len(permutation) |->
        blocks[(CHOOSE i \in 1..Len(permutation) : permutation[i] = k - 1)]]

ApplyPermutation(blocks, permutation) ==
    [k \in 1..Len(permutation) |-> blocks[permutation[k] + 1]]

\* Scatter blocks[i] to restored[permutation[i]]; the slots start as empty
\* vectors and a slot written twice keeps the later block.
\* std::mem::swap(&mut restored[pos], &mut blocks[i]): restored[pos] takes
\* blocks[i] (what blocks[i] takes back is not read again); an index
\* outside either vector panics.
SwapInto(restored, blocks, pos, i) ==
    IF pos >= Len(restored) \/ i > Len(blocks) THEN Err("panic")
    ELSE Ok([restored EXCEPT ![pos + 1] = blocks[i]])

RECURSIVE ReverseLoop(_, _, _, _)
ReverseLoop(restored, blocks, permutation, i) ==
    IF i > Len(permutation) THEN Ok(restored)
    ELSE IF permutation[i] >= Len(blocks) THEN Err("perm_index_out_of_range")
    ELSE LET r == SwapInto(restored, blocks, permutation[i], i)
         IN  IF ~r.ok THEN r
             ELSE ReverseLoop(r.val, blocks, permutation, i + 1)

\* A reversal that reads through the permutation (restored[i] is
\* blocks[permutation[i]]) where the code writes through it.
ReversePermutationGather(blocks, permutation) ==
    IF Len(blocks) # Len(permutation) THEN Err("perm_len_mismatch")
    ELSE IF \E i \in 1..Len(permutation) : permutation[i] >= Len(blocks)
    THEN Err("perm_index_out_of_range")
    ELSE Ok([i \in 1..Len(blocks) |-> blocks[permutation[i] + 1]])

\* A reversal without the comparison of the two lengths.
ReversePermutationAnyLen(blocks, permutation) ==
    ReverseLoop([k \in 1..Len(blocks) |-> <<>>], blocks, permutation, 1)

ReversePermutation(blocks, permutation) ==
    IF Len(blocks) # Len(permutation) THEN Err("perm_len_mismatch")
    ELSE ReverseLoop([k \in 1..Len(blocks) |-> <<>>], blocks, permutation, 1)

InsertAt(s, i, x) == Take(s, i) \o <<x>> \o Drop(s, i)

RemoveAt(s, i) == Take(s, i) \o Drop(s, i + 1)

\* A turn that records the position behind the inserted block.
PadTurnLate(blocks, positions, i, draw, pad) ==
    IF draw % 3 = 0
    THEN [blocks |-> InsertAt(blocks, i, pad),
          positions |-> Append(positions, i + 1), i |-> i + 2]
    ELSE [blocks |-> blocks, positions |-> positions, i |-> i + 1]

\* A turn that does not step over the block it inserted.
PadTurnNoSkip(blocks, positions, i, draw, pad) ==
    IF draw % 3 = 0
    THEN [blocks |-> InsertAt(blocks, i, pad),
          positions |-> Append(positions, i), i |-> i + 1]
    ELSE [blocks |-> blocks, positions |-> positions, i |-> i + 1]

\* One turn of the loop with the value drawn: on 0 modulo 3 the block pad
\* is inserted at i, i is recorded and the inserted block is stepped over;
\* then i advances.
PadTurn(blocks, positions, i, draw, pad) ==
    IF draw % 3 = 0
    THEN [blocks |-> InsertAt(blocks, i, pad),
          positions |-> Append(positions, i), i |-> i + 2]
    ELSE [blocks |-> blocks, positions |-> positions, i |-> i + 1]

\* while i < blocks.len(): one draw, and on 0 modulo 3 a block filled by
\* the generator.
RECURSIVE PaddingLoop(_, _, _, _)
PaddingLoop(blocks, positions, i, rng) ==
    IF i >= Len(blocks)
    THEN [blocks |-> blocks, positions |-> positions, rng |-> rng]
    ELSE LET d == NextU32(rng)
             pad == FillBlock(d.rng)
             t == PadTurn(blocks, positions, i, d.val, pad.val)
         IN  PaddingLoop(t.blocks, t.positions, t.i,
                         IF d.val % 3 = 0 THEN pad.rng ELSE d.rng)

AddPadding(blocks, rng) == PaddingLoop(blocks, <<>>, 0, rng)

\* The positions in the order they are given.
SortKeep(s) == s

\* sort_by(|a, b| b.cmp(a)): descending.
RECURSIVE InsertDesc(_, _)
InsertDesc(sorted, x) ==
    IF sorted = <<>> THEN <<x>>
    ELSE IF x >= Head(sorted) THEN <<x>> \o sorted
    ELSE <<Head(sorted)>> \o InsertDesc(Tail(sorted), x)

RECURSIVE SortDesc(_)
SortDesc(s) == IF s = <<>> THEN <<>> ELSE InsertDesc(SortDesc(Tail(s)), Head(s))

RECURSIVE RemoveLoop(_, _)
RemoveLoop(blocks, sorted_positions) ==
    IF sorted_positions = <<>> THEN Ok(blocks)
    ELSE IF Head(sorted_positions) >= Len(blocks)
    THEN Err("padding_pos_out_of_range")
    ELSE RemoveLoop(RemoveAt(blocks, Head(sorted_positions)),
                    Tail(sorted_positions))

RemovePadding(blocks, padding_positions) ==
    RemoveLoop(blocks, SortDesc(padding_positions))

(***************************************************************************)
(* Metadata and its JSON form (serde_json::to_vec / from_slice).  The      *)
(* serializer writes the compact form with the fields in declaration       *)
(* order; the parser of the model accepts that form.                       *)
(***************************************************************************)
JsonOpen ==
    <<123, 34, 111, 114, 105, 103, 105, 110, 97, 108, 95, 108, 101, 110, 34,
      58>>

JsonPerm ==
    <<44, 34, 112, 101, 114, 109, 117, 116, 97, 116, 105, 111, 110, 34, 58,
      91>>

JsonPad ==
    <<93, 44, 34, 112, 97, 100, 100, 105, 110, 103, 95, 112, 111, 115, 105,
      116, 105, 111, 110, 115, 34, 58, 91>>

JsonClose == <<93, 125>>

RECURSIVE NatToDec(_)
NatToDec(n) ==
    IF n < 10 THEN <<48 + n>> ELSE NatToDec(n \div 10) \o <<48 + (n % 10)>>

RECURSIVE ListToJson(_)
ListToJson(xs) ==
    IF xs = <<>> THEN <<>>
    ELSE IF Len(xs) = 1 THEN NatToDec(xs[1])
    ELSE NatToDec(xs[1]) \o <<44>> \o ListToJson(Tail(xs))

ToJson(metadata) ==
    JsonOpen \o NatToDec(metadata.original_len)
        \o JsonPerm \o ListToJson(metadata.permutation)
        \o JsonPad \o ListToJson(metadata.padding_positions)
        \o JsonClose

IsDigit(b) == b >= 48 /\ b <= 57

\* The literal lit at position pos of bytes: the position after it, or 0.
ParseLit(bytes, pos, lit) ==
    IF pos >= 1 /\ pos + Len(lit) - 1 <= Len(bytes)
       /\ SubSeq(bytes, pos, pos + Len(lit) - 1) = lit
    THEN pos + Len(lit) ELSE 0

RECURSIVE ParseDigits(_, _, _)
ParseDigits(bytes, pos, acc) ==
    IF pos <= Len(bytes) /\ IsDigit(bytes[pos])
    THEN ParseDigits(bytes, pos + 1, acc * 10 + (bytes[pos] - 48))
    ELSE [val |-> acc, pos |-> pos]

\* A number without sign, fraction or leading zero: [ok, val, pos].
ParseNat(bytes, pos) ==
    IF pos < 1 \/ pos > Len(bytes) \/ ~IsDigit(bytes[pos])
    THEN [ok |-> FALSE, val |-> 0, pos |-> 0]
    ELSE LET d == ParseDigits(bytes, pos, 0)
         IN  IF bytes[pos] = 48 /\ d.pos > pos + 1
             THEN [ok |-> FALSE, val |-> 0, pos |-> 0]
             ELSE [ok |-> TRUE, val |-> d.val, pos |-> d.pos]

\* The elements of a list from pos (after its bracket) up to its closing
\* bracket: [ok, val, pos], pos at the closing bracket.
RECURSIVE ParseElems(_, _, _)
ParseElems(bytes, pos, acc) ==
    LET n == ParseNat(bytes, pos)
    IN  IF ~n.ok THEN [ok |-> FALSE, val |-> <<>>, pos |-> 0]
        ELSE IF n.pos <= Len(bytes) /\ bytes[n.pos] = 44
        THEN ParseElems(bytes, n.pos + 1, Append(acc, n.val))
        ELSE [ok |-> TRUE, val |-> Append(acc, n.val), pos |-> n.pos]

ParseList(bytes, pos) ==
    IF pos >= 1 /\ pos <= Len(bytes) /\ bytes[pos] = 93
    THEN [ok |-> TRUE, val |-> <<>>, pos |-> pos]
    ELSE ParseElems(bytes, pos, <<>>)

FromJson(bytes) ==
    LET len == ParseNat(bytes, ParseLit(bytes, 1, JsonOpen))
        perm == ParseList(bytes, ParseLit(bytes, len.pos, JsonPerm))
        pad == ParseList(bytes, ParseLit(bytes, perm.pos, JsonPad))
    IN  IF len.ok /\ perm.ok /\ pad.ok
           /\ ParseLit(bytes, pad.pos, JsonClose) = Len(bytes) + 1
        THEN Ok([original_len |-> len.val, permutation |-> perm.val,
                 padding_positions |-> pad.val])
        ELSE Err("json")

(***************************************************************************)
(* Hex strings (hex::decode, hex::encode).  A string is the sequence of    *)
(* its ASCII bytes.                                                        *)
(***************************************************************************)
\* The value of a hex digit of either case, or -1.
HexVal(ch) ==
    IF ch >= 48 /\ ch <= 57 THEN ch - 48
    ELSE IF ch >= 97 /\ ch <= 102 THEN ch - 87
    ELSE IF ch >= 65 /\ ch <= 70 THEN ch - 55
    ELSE -1

HexDecode(str) ==
    IF Len(str) % 2 # 0 THEN Err("hex_decode")
    ELSE IF \E i \in 1..Len(str) : HexVal(str[i]) < 0 THEN Err("hex_decode")
    ELSE Ok([k \in 1..(Len(str) \div 2) |->
                HexVal(str[2 * k - 1]) * 16 + HexVal(str[2 * k])])

\* Upper-case hex digits.
HexDigitUpper(v) == IF v < 10 THEN 48 + v ELSE 55 + v

HexDigit(v) == IF v < 10 THEN 48 + v ELSE 87 + v

HexEncode(bytes) ==
    [i \in 1..(2 * Len(bytes)) |->
        IF i % 2 = 1 THEN HexDigit(bytes[(i + 1) \div 2] \div 16)
        ELSE HexDigit(bytes[i \div 2] % 16)]

\* from_hex without the check of the decoded length.
FromHexFnUnchecked(hex_key) == HexDecode(hex_key)

\* from_hex(hex_key): the key of the service, or an error.
FromHexFn(hex_key) ==
    LET bytes == HexDecode(hex_key)
    IN  IF ~bytes.ok THEN bytes
        ELSE IF Len(bytes.val) # KEY_LEN THEN Err("key_len")
        ELSE Ok(bytes.val)

PrivateKeyHexFn(key) == HexEncode(key)

(***************************************************************************)
(* encrypt.                                                                *)
(***************************************************************************)
\* Steps 2 to 4 of encrypt: split, shuffle with the generator derived from
\* the key, pad with the same generator.
\* A shuffle whose generator is seeded from the key and the ciphertext.
ShuffleAndPadByContent(key, ciphertext) ==
    LET blocks == SplitIntoBlocks(ciphertext, BLOCK_SIZE)
        g == GeneratePermutation(Len(blocks), DeriveRng(key \o ciphertext))
        p == AddPadding(ApplyPermutation(blocks, g.perm), g.rng)
    IN  [blocks |-> blocks, permutation |-> g.perm,
         padded_blocks |-> p.blocks, padding_positions |-> p.positions]

ShuffleAndPad(key, ciphertext) ==
    LET blocks == SplitIntoBlocks(ciphertext, BLOCK_SIZE)
        g == GeneratePermutation(Len(blocks), DeriveRng(key))
        p == AddPadding(ApplyPermutation(blocks, g.perm), g.rng)
    IN  [blocks |-> blocks, permutation |-> g.perm,
         padded_blocks |-> p.blocks, padding_positions |-> p.positions]

\* A frame layout without the length check: the length is cut to 16 bits.
EncodeFrameUnchecked(encrypted_metadata, padded_blocks) ==
    Ok(<<(Len(encrypted_metadata) \div 256) % 256,
         Len(encrypted_metadata) % 256>>
       \o encrypted_metadata \o Concat(padded_blocks))

\* Step 7 of encrypt: the length check and the frame layout.
EncodeFrame(encrypted_metadata, padded_blocks) ==
    IF Len(encrypted_metadata) > MAX_METADATA_LEN THEN Err("metadata_too_long")
    ELSE Ok(<<(Len(encrypted_metadata) \div 256) % 256,
              Len(encrypted_metadata) % 256>>
            \o encrypted_metadata \o Concat(padded_blocks))

\* encrypt(plaintext) under key, with the two nonces the system generator
\* hands to aes_encrypt: the locals of the call and its result.
EncryptFn(key, plaintext, nonces) ==
    LET ciphertext == AesEncrypt(key, nonces[1], PrivateEncrypt(key, plaintext))
        sp == ShuffleAndPad(key, ciphertext)
        metadata == [original_len |-> Len(ciphertext),
                     permutation |-> sp.permutation,
                     padding_positions |-> sp.padding_positions]
        encrypted_metadata == AesEncrypt(key, nonces[2], ToJson(metadata))
    IN  [ciphertext |-> ciphertext,
         blocks |-> sp.blocks,
         padded_blocks |-> sp.padded_blocks,
         metadata |-> metadata,
         encrypted_metadata |-> encrypted_metadata,
         result |-> EncodeFrame(encrypted_metadata, sp.padded_blocks)]

(***************************************************************************)
(* decrypt.                                                                *)
(***************************************************************************)
Panic == Err("panic")

\* &data[from..to]: panics when the range leaves the buffer.
Slice(data, from, to) ==
    IF from > to \/ to > Len(data) THEN Panic ELSE Ok(SubSeq(data, from + 1, to))

\* A header step without the check of the declared length: the slices are
\* taken as declared.
ParseHeaderUnchecked(data) ==
    IF Len(data) < 2 THEN Err("data_too_short")
    ELSE LET metadata_len == data[1] * 256 + data[2]
             metadata_end == 2 + metadata_len
             encrypted_metadata == Slice(data, 2, metadata_end)
             blocks_data == Slice(data, metadata_end, Len(data))
         IN  IF ~encrypted_metadata.ok \/ ~blocks_data.ok THEN Panic
             ELSE Ok([metadata_len |-> metadata_len,
                      encrypted_metadata |-> encrypted_metadata.val,
                      blocks_data |-> blocks_data.val])

\* Step 1 of decrypt: the header and the two regions of the frame.
ParseHeader(data) ==
    IF Len(data) < 2 THEN Err("data_too_short")
    ELSE LET metadata_len == data[1] * 256 + data[2]
             metadata_end == 2 + metadata_len
             encrypted_metadata == Slice(data, 2, metadata_end)
             blocks_data == Slice(data, metadata_end, Len(data))
         IN  IF metadata_end > Len(data) THEN Err("metadata_len_out_of_range")
             ELSE IF ~encrypted_metadata.ok \/ ~blocks_data.ok THEN Panic
             ELSE Ok([metadata_len |-> metadata_len,
                      encrypted_metadata |-> encrypted_metadata.val,
                      blocks_data |-> blocks_data.val])

\* A split without the alignment check: a short last block is filled with
\* zeros, as split_into_blocks does.
SplitBlocksDataUnchecked(blocks_data) == Ok(SplitIntoBlocks(blocks_data, BLOCK_SIZE))

\* Step 3 of decrypt: the block region cut into blocks.
SplitBlocksData(blocks_data) ==
    LET block_count == Len(blocks_data) \div BLOCK_SIZE
    IN  IF block_count * BLOCK_SIZE # Len(blocks_data)
        THEN Err("blocks_not_aligned")
        ELSE Ok([i \in 1..block_count |->
                    SubSeq(blocks_data, (i - 1) * BLOCK_SIZE + 1, i * BLOCK_SIZE)])

\* A truncation without the comparison of the lengths: Vec::truncate
\* leaves a shorter buffer as it is.
TruncateAnyLen(merged, original_len) ==
    Ok(Take(merged, IF original_len < Len(merged) THEN original_len
                    ELSE Len(merged)))

\* Step 6 of decrypt behind the merge: the length check and the truncate.
TruncateToOriginal(merged, original_len) ==
    IF Len(merged) < original_len THEN Err("ciphertext_too_short")
    ELSE Ok(Take(merged, original_len))

\* Steps 4 to 8 of decrypt, from the parsed metadata and the blocks.
Unwrap(key, metadata, blocks) ==
    LET unpadded == RemovePadding(blocks, metadata.padding_positions)
    IN  IF ~unpadded.ok THEN [result |-> unpadded, aead |-> 1]
        ELSE
    LET unshuffled == ReversePermutation(unpadded.val, metadata.permutation)
    IN  IF ~unshuffled.ok THEN [result |-> unshuffled, aead |-> 1]
        ELSE
    LET ciphertext == TruncateToOriginal(MergeBlocks(unshuffled.val, BLOCK_SIZE),
                                         metadata.original_len)
    IN  IF ~ciphertext.ok THEN [result |-> ciphertext, aead |-> 1]
        ELSE
    LET aes_decrypted == AesDecrypt(key, ciphertext.val)
    IN  IF ~aes_decrypted.ok THEN [result |-> aes_decrypted, aead |-> 2]
        ELSE [result |-> Ok(PrivateDecrypt(key, aes_decrypted.val)), aead |-> 2]

\* decrypt(data) under key: its result and the number of aes_decrypt calls
\* it made.
DecryptFn(key, data) ==
    LET header == ParseHeader(data)
    IN  IF ~header.ok THEN [result |-> header, aead |-> 0]
        ELSE
    LET metadata_bytes == AesDecrypt(key, header.val.encrypted_metadata)
    IN  IF ~metadata_bytes.ok THEN [result |-> metadata_bytes, aead |-> 1]
        ELSE
    LET metadata == FromJson(metadata_bytes.val)
    IN  IF ~metadata.ok THEN [result |-> metadata, aead |-> 1]
        ELSE
    LET blocks == SplitBlocksData(header.val.blocks_data)
    IN  IF ~blocks.ok THEN [result |-> blocks, aead |-> 1]
        ELSE Unwrap(key, metadata.val, blocks.val)

(***************************************************************************)
(* The inputs of the model.                                                *)
(***************************************************************************)
\* The keys: 32 bytes that differ in the first byte.
KeyN(k) == [i \in 1..KEY_LEN |-> IF i = 1 THEN k + 2 ELSE i - 1]

Keys == {KeyN(k) : k \in 0..(NumKeys - 1)}

\* What the system generator hands to one encrypt call: the nonce of the
\* payload and the nonce of the metadata.
NoncePair(e) ==
    <<[i \in 1..NONCE_LEN |-> (16 * e + i) % 256],
      [i \in 1..NONCE_LEN |-> (16 * e + 100 + i) % 256]>>

NoncePairs == {NoncePair(e) : e \in 1..NumNonces}

Hello == <<72, 101, 108, 108, 111, 44, 32, 119, 111, 114, 108, 100, 33>>

\* The plaintexts: the prefixes of "Hello, world!" and the zero buffers, up
\* to MaxPlainLen bytes.
PlainTexts ==
    {Take(Hello, n) : n \in 0..MaxPlainLen} \cup {Zeros(n) : n \in 0..MaxPlainLen}

Masks == {1, 255}

\* data with the byte at position pos (from 1) changed by mask; pos = 0
\* changes nothing.
Tamper(data, pos, mask) ==
    IF pos = 0 THEN data ELSE [data EXCEPT ![pos] = Xor(@, mask)]

\* data cut or zero-extended to len bytes.
Resize(data, len) ==
    IF len <= Len(data) THEN Take(data, len) ELSE data \o Zeros(len - Len(data))

(***************************************************************************)
(* The state: the services constructed so far (a service is its key), the  *)
(* calls in progress or returned, and the generators the calls hold; and,  *)
(* of the WebSocket server, the AppState shared by the handlers (state)    *)
(* and the position of every task of every connection (tasks).             *)
(***************************************************************************)
VARIABLES service, calls, rngs, state, tasks

vars == <<service, calls, rngs, state, tasks>>

\* The WebSocket server's part of the state.
web == <<state, tasks>>

\* The connections, and the client_id (a fresh UUID) of each.
Conns == {1, 2}

ClientId(c) == IF c = 1 THEN "client-1" ELSE "client-2"

ClientIds == {ClientId(c) : c \in Conns}

\* The user_id values an identify message carries.
UserIds == {"alice", "bob"}

\* The tasks: of every connection, the handle_socket future and the
\* recv_task it spawns.  NoTask owns a mutex nobody holds.
Tasks == Conns \X {"handle_socket", "recv_task"}

NoTask == <<0, "none">>

\* A key a map does not hold: no sender, no user_id.
NoSender == 0

NoUser == ""

\* AppState after register_routes: two empty maps, each behind its mutex.
\* clients maps a key to the sender (client_tx) of a connection,
\* client_user_map a client_id to a user_id.
NewAppState ==
    [clients |-> [owner |-> NoTask,
                  map |-> [k \in UserIds \cup ClientIds |-> NoSender]],
     client_user_map |-> [owner |-> NoTask,
                          map |-> [k \in ClientIds |-> NoUser]]]

\* No connection has been upgraded yet.  identified and notified are the
\* history of a connection: the user_ids it has inserted itself under, and
\* the user the last notification sent on its client_tx was meant for.
NoTasks ==
    [c \in Conns |-> [handle_socket |-> [pc |-> "closed", user_id |-> NoUser],
                      recv_task |-> [pc |-> "closed", user_id |-> NoUser],
                      send_task |-> "closed",
                      identified |-> {}, notified |-> NoUser]]

Services == {1, 2}

Calls == {1, 2}

NoKey == <<>>

NoRng == [seed |-> 0, pos |-> -1]

Idle == [op |-> "idle", pc |-> "idle"]

Init ==
    /\ service = [s \in Services |-> NoKey]
    /\ calls = [c \in Calls |-> Idle]
    /\ rngs = [c \in Calls |-> NoRng]
    /\ state = NewAppState
    /\ tasks = NoTasks

\* CryptoService::generate(): a key from the system generator.
Generate(s) ==
    /\ service[s] = NoKey
    /\ \E key \in Keys : service' = [service EXCEPT ![s] = key]
    /\ UNCHANGED <<calls, rngs, web>>

\* CryptoService::from_key(private_key).
FromKey(s, key) ==
    /\ service[s] = NoKey
    /\ service' = [service EXCEPT ![s] = key]
    /\ UNCHANGED <<calls, rngs, web>>

\* A whole encrypt call on service s.
Encrypt(c, s, plaintext, nonces) ==
    /\ calls[c] = Idle
    /\ service[s] # NoKey
    /\ LET e == EncryptFn(service[s], plaintext, nonces)
       IN  calls' = [calls EXCEPT ![c] =
                [op |-> "encrypt", pc |-> "done", svc |-> s,
                 plaintext |-> plaintext, nonces |-> nonces,
                 metadata |-> e.metadata, n_blocks |-> Len(e.blocks),
                 result |-> e.result]]
    /\ UNCHANGED <<service, rngs, web>>

\* A whole decrypt call on service s.  The data is the frame that call
\* `from` returned, resized to len bytes after the byte at pos was changed
\* by mask; from, pos, mask and len are kept to state the claims.
Decrypt(c, s, from, pos, mask, len) ==
    /\ calls[c] = Idle
    /\ service[s] # NoKey
    /\ calls[from].op = "encrypt" /\ calls[from].pc = "done"
    /\ calls[from].result.ok
    /\ LET data == Resize(Tamper(calls[from].result.val, pos, mask), len)
           d == DecryptFn(service[s], data)
       IN  calls' = [calls EXCEPT ![c] =
                [op |-> "decrypt", pc |-> "done", svc |-> s, data |-> data,
                 from |-> from, pos |-> pos, mask |-> mask, len |-> len,
                 aead |-> d.aead, result |-> d.result]]
    /\ UNCHANGED <<service, rngs, web>>

\* The caller drops the result of a returned call.
Return(c) ==
    /\ calls[c].pc = "done"
    /\ calls' = [calls EXCEPT ![c] = Idle]
    /\ UNCHANGED <<service, rngs, web>>

FrameLen(c) == Len(calls[c].result.val)

MetaEnd(c) == 2 + calls[c].result.val[1] * 256 + calls[c].result.val[2]

\* The lengths a frame of length n with its metadata ending at m is resized
\* to: around 0, around m and around n.
ResizeLens(n, m) ==
    ((0..MaxCut) \cup ((m - MaxCut)..(m + MaxCut))
        \cup ((n - MaxCut)..(n + MaxCut))) \ {n}

\* The first call: an encrypt on service 1.
FirstEncrypt ==
    \E p \in PlainTexts, n \in NoncePairs : Encrypt(1, 1, p, n)

\* A second encrypt, on either service, once the first has returned.
SecondEncrypt ==
    /\ calls[1].pc = "done"
    /\ \E s \in Services, p \in PlainTexts, n \in NoncePairs : Encrypt(2, s, p, n)

\* decrypt of the frame as returned, by either service.
DecryptFrame ==
    /\ calls[1].pc = "done" /\ calls[2] = Idle
    /\ \E s \in Services : Decrypt(2, s, 1, 0, 1, FrameLen(1))

\* decrypt of the frame with one byte changed, by the service that made it.
DecryptTampered ==
    /\ calls[1].pc = "done" /\ calls[2] = Idle
    /\ \E pos \in 1..FrameLen(1), mask \in Masks :
            Decrypt(2, 1, 1, pos, mask, FrameLen(1))

\* decrypt of the frame cut or extended, as returned or with a byte of the
\* header or the first byte of the metadata changed.
DecryptResized ==
    /\ calls[1].pc = "done" /\ calls[2] = Idle
    /\ \E pos \in {0, 1, 3}, len \in ResizeLens(FrameLen(1), MetaEnd(1)) :
            Decrypt(2, 1, 1, pos, 1, len)

Next ==
    \/ \E s \in Services : Generate(s)
    \/ \E s \in Services, key \in Keys : FromKey(s, key)
    \/ FirstEncrypt
    \/ SecondEncrypt
    \/ DecryptFrame
    \/ DecryptTampered
    \/ DecryptResized
    \/ \E c \in Calls : (c = 1 => calls[2] = Idle) /\ Return(c)

Spec == Init /\ [][Next]_vars

(***************************************************************************)
(* The calls step by step, for calls that overlap on one service.  A step  *)
(* reads the key of the service and the locals of its call; the generator  *)
(* of an encrypt call is the local `rng` of that call.                     *)
(***************************************************************************)
\* The generator a call uses: its own (let mut rng = self.derive_rng()).
\* One generator for all the calls of a service.
RngSlotShared(c) == 1

RngSlot(c) == c

KeyAt(c) == service[calls[c].svc]

\* The locals of call c with those of `more` added or replaced.
With(c, more) == [calls EXCEPT ![c] = more @@ calls[c]]

EncStart(c, s, plaintext, nonces) ==
    /\ calls[c] = Idle
    /\ service[s] # NoKey
    /\ calls' = [calls EXCEPT ![c] =
            [op |-> "encrypt", pc |-> "payload", svc |-> s,
             plaintext |-> plaintext, nonces |-> nonces]]
    /\ UNCHANGED <<service, rngs, web>>

\* private_encrypt, aes_encrypt, split_into_blocks.
EncPayload(c) ==
    /\ calls[c].op = "encrypt" /\ calls[c].pc = "payload"
    /\ LET ciphertext == AesEncrypt(KeyAt(c), calls[c].nonces[1],
                                    PrivateEncrypt(KeyAt(c), calls[c].plaintext))
       IN  calls' = With(c, [pc |-> "derive", ciphertext |-> ciphertext,
                             blocks |-> SplitIntoBlocks(ciphertext, BLOCK_SIZE)])
    /\ UNCHANGED <<service, rngs, web>>

EncDeriveRng(c) ==
    /\ calls[c].op = "encrypt" /\ calls[c].pc = "derive"
    /\ rngs' = [rngs EXCEPT ![RngSlot(c)] = DeriveRng(KeyAt(c))]
    /\ calls' = With(c, [pc |-> "permute"])
    /\ UNCHANGED <<service, web>>

EncPermute(c) ==
    /\ calls[c].op = "encrypt" /\ calls[c].pc = "permute"
    /\ LET g == GeneratePermutation(Len(calls[c].blocks), rngs[RngSlot(c)])
       IN  /\ rngs' = [rngs EXCEPT ![RngSlot(c)] = g.rng]
           /\ calls' = With(c, [pc |-> "pad", permutation |-> g.perm,
                                shuffled |-> ApplyPermutation(calls[c].blocks, g.perm)])
    /\ UNCHANGED <<service, web>>

EncPad(c) ==
    /\ calls[c].op = "encrypt" /\ calls[c].pc = "pad"
    /\ LET p == AddPadding(calls[c].shuffled, rngs[RngSlot(c)])
       IN  /\ rngs' = [rngs EXCEPT ![RngSlot(c)] = p.rng]
           /\ calls' = With(c, [pc |-> "metadata", padded_blocks |-> p.blocks,
                                padding_positions |-> p.positions])
    /\ UNCHANGED <<service, web>>

EncMetadata(c) ==
    /\ calls[c].op = "encrypt" /\ calls[c].pc = "metadata"
    /\ LET metadata == [original_len |-> Len(calls[c].ciphertext),
                        permutation |-> calls[c].permutation,
                        padding_positions |-> calls[c].padding_positions]
       IN  calls' = With(c, [pc |-> "encode", metadata |-> metadata,
                             encrypted_metadata |->
                                AesEncrypt(KeyAt(c), calls[c].nonces[2],
                                           ToJson(metadata))])
    /\ UNCHANGED <<service, rngs, web>>

\* The frame is built and the call returns; its generator is dropped.
EncEncode(c) ==
    /\ calls[c].op = "encrypt" /\ calls[c].pc = "encode"
    /\ calls' = With(c, [pc |-> "done",
                         result |-> EncodeFrame(calls[c].encrypted_metadata,
                                                calls[c].padded_blocks)])
    /\ rngs' = [rngs EXCEPT ![RngSlot(c)] = NoRng]
    /\ UNCHANGED <<service, web>>

DecStart(c, s, data) ==
    /\ calls[c] = Idle
    /\ service[s] # NoKey
    /\ calls' = [calls EXCEPT ![c] =
            [op |-> "decrypt", pc |-> "header", svc |-> s, data |-> data,
             aead |-> 0]]
    /\ UNCHANGED <<service, rngs, web>>

DecHeader(c) ==
    /\ calls[c].op = "decrypt" /\ calls[c].pc = "header"
    /\ LET header == ParseHeader(calls[c].data)
       IN  calls' = IF header.ok
                    THEN With(c, [pc |-> "metadata", header |-> header.val])
                    ELSE With(c, [pc |-> "done", result |-> header])
    /\ UNCHANGED <<service, rngs, web>>

DecMetadata(c) ==
    /\ calls[c].op = "decrypt" /\ calls[c].pc = "metadata"
    /\ LET metadata_bytes == AesDecrypt(KeyAt(c), calls[c].header.encrypted_metadata)
           metadata == FromJson(metadata_bytes.val)
       IN  calls' =
             IF ~metadata_bytes.ok
             THEN With(c, [pc |-> "done", aead |-> 1, result |-> metadata_bytes])
             ELSE IF ~metadata.ok
             THEN With(c, [pc |-> "done", aead |-> 1, result |-> metadata])
             ELSE With(c, [pc |-> "split", aead |-> 1, metadata |-> metadata.val])
    /\ UNCHANGED <<service, rngs, web>>

DecSplit(c) ==
    /\ calls[c].op = "decrypt" /\ calls[c].pc = "split"
    /\ LET blocks == SplitBlocksData(calls[c].header.blocks_data)
       IN  calls' = IF blocks.ok
                    THEN With(c, [pc |-> "unwrap", blocks |-> blocks.val])
                    ELSE With(c, [pc |-> "done", result |-> blocks])
    /\ UNCHANGED <<service, rngs, web>>

DecUnwrap(c) ==
    /\ calls[c].op = "decrypt" /\ calls[c].pc = "unwrap"
    /\ LET u == Unwrap(KeyAt(c), calls[c].metadata, calls[c].blocks)
       IN  calls' = With(c, [pc |-> "done", aead |-> u.aead, result |-> u.result])
    /\ UNCHANGED <<service, rngs, web>>

\* Overlapping calls on one shared service.
ConcPlainTexts == {Take(Hello, n) : n \in (MaxPlainLen - 1)..MaxPlainLen}

\* What decrypt is given: nothing, a frame encrypt returns under the key,
\* or such a frame with the first byte of its metadata changed.
ConcData(key) ==
    {<<>>} \cup UNION {
        LET frame == EncryptFn(key, p, n).result.val
        IN  {frame, Tamper(frame, 3, 1)} : p \in ConcPlainTexts, n \in NoncePairs}

InitConc ==
    /\ \E key \in Keys : service = [s \in Services |-> IF s = 1 THEN key ELSE NoKey]
    /\ calls = [c \in Calls |-> Idle]
    /\ rngs = [c \in Calls |-> NoRng]
    /\ state = NewAppState
    /\ tasks = NoTasks

NextConc ==
    \/ \E c \in Calls, p \in ConcPlainTexts, n \in NoncePairs : EncStart(c, 1, p, n)
    \/ \E c \in Calls : EncPayload(c)
    \/ \E c \in Calls : EncDeriveRng(c)
    \/ \E c \in Calls : EncPermute(c)
    \/ \E c \in Calls : EncPad(c)
    \/ \E c \in Calls : EncMetadata(c)
    \/ \E c \in Calls : EncEncode(c)
    \/ \E c \in Calls : calls[c] = Idle /\ \E data \in ConcData(service[1]) : DecStart(c, 1, data)
    \/ \E c \in Calls : DecHeader(c)
    \/ \E c \in Calls : DecMetadata(c)
    \/ \E c \in Calls : DecSplit(c)
    \/ \E c \in Calls : DecUnwrap(c)
    \/ \E c \in Calls : Return(c)

SpecConc == InitConc /\ [][NextConc]_vars

(***************************************************************************)
(* The frame codec on its own: encrypt from its last step, with the        *)
(* encrypted metadata and the padded blocks it has built, then the header  *)
(* step of decrypt on the frame.  Besides what encrypt builds for the      *)
(* plaintexts of the model, the encrypted metadata takes lengths around    *)
(* 256 and around MAX_METADATA_LEN, which encrypt reaches on plaintexts    *)
(* far longer than the model enumerates.                                   *)
(***************************************************************************)
Blob(n) == [i \in 1..n |-> (7 * i) % 256]

BlockN(j) == [i \in 1..BLOCK_SIZE |-> (16 * j + i) % 256]

FrameLocals(key) ==
    {[encrypted_metadata |-> Blob(n), padded_blocks |-> [j \in 1..k |-> BlockN(j)]] :
        n \in ((256 - MaxOver)..(256 + MaxOver))
                \cup ((MAX_METADATA_LEN - MaxOver)..(MAX_METADATA_LEN + MaxOver)),
        k \in 2..(2 + MaxOver)}
    \cup {LET e == EncryptFn(key, p, n)
          IN  [encrypted_metadata |-> e.encrypted_metadata,
               padded_blocks |-> e.padded_blocks] :
            p \in ConcPlainTexts, n \in NoncePairs}

InitFrame ==
    /\ \E key \in Keys :
        /\ service = [s \in Services |-> IF s = 1 THEN key ELSE NoKey]
        /\ \E l \in FrameLocals(key) :
                calls = [c \in Calls |->
                            IF c = 1
                            THEN l @@ [op |-> "encrypt", pc |-> "encode", svc |-> 1]
                            ELSE Idle]
    /\ rngs = [c \in Calls |-> NoRng]
    /\ state = NewAppState
    /\ tasks = NoTasks

NextFrame ==
    \/ EncEncode(1)
    \/ /\ calls[1].pc = "done" /\ calls[1].result.ok
       /\ DecStart(2, 1, calls[1].result.val)
    \/ DecHeader(2)

SpecFrame == InitFrame /\ [][NextFrame]_vars

(***************************************************************************)
(* The key constructors and the hex export.                                *)
(***************************************************************************)
\* CryptoService::from_hex(hex_key): on Ok the service is constructed.
FromHex(c, s, hex_key) ==
    /\ calls[c] = Idle
    /\ service[s] = NoKey
    /\ LET r == FromHexFn(hex_key)
       IN  /\ calls' = [calls EXCEPT ![c] =
                    [op |-> "from_hex", pc |-> "done", svc |-> s,
                     hex_key |-> hex_key, result |-> r]]
           /\ service' = IF r.ok THEN [service EXCEPT ![s] = r.val] ELSE service
    /\ UNCHANGED <<rngs, web>>

\* private_key_hex() on service s.
PrivateKeyHex(c, s) ==
    /\ calls[c] = Idle
    /\ service[s] # NoKey
    /\ calls' = [calls EXCEPT ![c] =
            [op |-> "private_key_hex", pc |-> "done", svc |-> s,
             result |-> PrivateKeyHexFn(service[s])]]
    /\ UNCHANGED <<service, rngs, web>>

Upper(str) ==
    [i \in 1..Len(str) |-> IF str[i] >= 97 /\ str[i] <= 122 THEN str[i] - 32 ELSE str[i]]

Lower(str) ==
    [i \in 1..Len(str) |-> IF str[i] >= 65 /\ str[i] <= 90 THEN str[i] + 32 ELSE str[i]]

\* The characters put into a hex string: B, and the characters next to the
\* three ranges of hex digits, / : @ G ` g, and a byte outside ASCII.
ProbeChars == {66, 47, 58, 64, 71, 96, 103, 195}

\* The strings given to from_hex: the hex form of a key in lower or upper
\* case, cut or extended with zeros to a length around 2 * KEY_LEN, as it
\* is or with one of its first or last two characters replaced.
HexInputs ==
    UNION {
        LET full == [i \in 1..n |-> IF i <= Len(base) THEN base[i] ELSE 48]
        IN  {full} \cup
            {[full EXCEPT ![q] = ch] : q \in {1, 2, n - 1, n} \cap (1..n),
                                       ch \in ProbeChars} :
        base \in {HexEncode(key) : key \in Keys}
                    \cup {Upper(HexEncode(key)) : key \in Keys},
        n \in {0} \cup ((2 * KEY_LEN - MaxOver)..(2 * KEY_LEN + MaxOver))}

NextHex ==
    \/ Generate(2)
    \/ \E key \in Keys : FromKey(2, key)
    \/ \E hex_key \in HexInputs : FromHex(1, 1, hex_key)
    \/ \E s \in Services : PrivateKeyHex(2, s)
    \/ Return(2)

SpecHex == Init /\ [][NextHex]_vars

(***************************************************************************)
(* generate_permutation, apply_permutation and reverse_permutation on      *)
(* their own.  generate_permutation runs turn by turn, each turn with a    *)
(* draw the generator may return; the other two are whole calls.  An       *)
(* encrypt call on slot 2 gives the permutation as encrypt asks for it.    *)
(***************************************************************************)
\* What next_u32 returns: every residue the loop can take, and large words
\* (the largest integer of the checker stands for the largest u32).
Draws == (0..MaxBlocks) \cup {65535, 2147483647}

\* let mut perm = (0..len).collect(); the loop starts at i = len - 1.
GenPermStart(c, len) ==
    /\ calls[c] = Idle
    /\ calls' = [calls EXCEPT ![c] =
            [op |-> "generate_permutation", pc |-> "loop", len |-> len,
             perm |-> [k \in 1..len |-> k - 1], i |-> len - 1, turns |-> 0]]
    /\ UNCHANGED <<service, rngs, web>>

\* One turn of for i in (1..len).rev().
GenPermStep(c, draw) ==
    /\ calls[c].op = "generate_permutation" /\ calls[c].pc = "loop"
    /\ calls[c].i >= 1
    /\ LET r == PermSwap(calls[c].perm, calls[c].i, draw)
       IN  calls' = IF r.ok
                    THEN With(c, [perm |-> r.val, i |-> calls[c].i - 1,
                                  turns |-> calls[c].turns + 1])
                    ELSE With(c, [pc |-> "done", result |-> r])
    /\ UNCHANGED <<service, rngs, web>>

\* The range is used up: perm is returned.
GenPermReturn(c) ==
    /\ calls[c].op = "generate_permutation" /\ calls[c].pc = "loop"
    /\ calls[c].i < 1
    /\ calls' = With(c, [pc |-> "done", result |-> Ok(calls[c].perm)])
    /\ UNCHANGED <<service, rngs, web>>

\* A whole apply_permutation call.
ApplyPerm(c, blocks, permutation) ==
    /\ calls[c] = Idle
    /\ calls' = [calls EXCEPT ![c] =
            [op |-> "apply_permutation", pc |-> "done", blocks |-> blocks,
             permutation |-> permutation,
             result |-> Ok(ApplyPermutation(blocks, permutation))]]
    /\ UNCHANGED <<service, rngs, web>>

\* A whole reverse_permutation call.
ReversePerm(c, blocks, permutation) ==
    /\ calls[c] = Idle
    /\ calls' = [calls EXCEPT ![c] =
            [op |-> "reverse_permutation", pc |-> "done", blocks |-> blocks,
             permutation |-> permutation,
             result |-> ReversePermutation(blocks, permutation)]]
    /\ UNCHANGED <<service, rngs, web>>

\* Lists of n blocks: n different blocks, or n times the same block.
BlockLists ==
    {[j \in 1..n |-> BlockN(j)] : n \in 0..MaxBlocks}
        \cup {[j \in 1..n |-> BlockN(1)] : n \in 2..MaxBlocks}

\* The permutations of [0, n).
Perms(n) ==
    {p \in [1..n -> 0..(n - 1)] : \A a, b \in 1..n : p[a] = p[b] => a = b}

\* The sequences of indices a metadata can hold: any length up to
\* MaxBlocks, any values up to MaxBlocks.
PermSeqs == UNION {[1..m -> 0..MaxBlocks] : m \in 0..MaxBlocks}

NextPerm ==
    \/ \E len \in 0..MaxBlocks : calls[2] = Idle /\ GenPermStart(1, len)
    \/ \E draw \in Draws : GenPermStep(1, draw)
    \/ GenPermReturn(1)
    \/ \E blocks \in BlockLists : \E permutation \in Perms(Len(blocks)) :
            calls[2] = Idle /\ ApplyPerm(1, blocks, permutation)
    \/ /\ calls[1].op = "apply_permutation"
       /\ ReversePerm(2, calls[1].result.val, calls[1].permutation)
    \/ \E blocks \in BlockLists, permutation \in PermSeqs :
            calls[1] = Idle /\ ReversePerm(2, blocks, permutation)
    \/ \E key \in Keys : calls[1] = Idle /\ calls[2] = Idle /\ FromKey(1, key)
    \/ \E p \in ConcPlainTexts, n \in NoncePairs :
            calls[1] = Idle /\ Encrypt(2, 1, p, n)
    \/ \E c \in Calls : (c = 1 => calls[2] = Idle) /\ Return(c)

SpecPerm == Init /\ [][NextPerm]_vars

(***************************************************************************)
(* add_padding and remove_padding on their own.  add_padding runs turn by  *)
(* turn, each turn with a draw and a block the generator may return;       *)
(* remove_padding is a whole call.                                         *)
(***************************************************************************)
\* The blocks fill_bytes may write: they differ from the blocks of
\* BlockLists, so that a decoy is told from a real block by its bytes.
Decoys == {[i \in 1..BLOCK_SIZE |-> 200 + k] : k \in 1..2}

AddPadStart(c, blocks) ==
    /\ calls[c] = Idle
    /\ calls' = [calls EXCEPT ![c] =
            [op |-> "add_padding", pc |-> "loop", input |-> blocks,
             blocks |-> blocks, padding_positions |-> <<>>, i |-> 0,
             drawn |-> <<>>]]
    /\ UNCHANGED <<service, rngs, web>>

\* One turn of while i < blocks.len().
AddPadStep(c, draw, pad) ==
    /\ calls[c].op = "add_padding" /\ calls[c].pc = "loop"
    /\ calls[c].i < Len(calls[c].blocks)
    /\ LET t == PadTurn(calls[c].blocks, calls[c].padding_positions,
                        calls[c].i, draw, pad)
       IN  calls' = With(c, [blocks |-> t.blocks,
                             padding_positions |-> t.positions, i |-> t.i,
                             drawn |-> Append(calls[c].drawn, draw)])
    /\ UNCHANGED <<service, rngs, web>>

\* The walk is over: (blocks, padding_positions) is returned.
AddPadReturn(c) ==
    /\ calls[c].op = "add_padding" /\ calls[c].pc = "loop"
    /\ calls[c].i >= Len(calls[c].blocks)
    /\ calls' = With(c, [pc |-> "done",
                         result |-> Ok(<<calls[c].blocks,
                                        calls[c].padding_positions>>)])
    /\ UNCHANGED <<service, rngs, web>>

\* A whole remove_padding call.
RemovePad(c, blocks, padding_positions) ==
    /\ calls[c] = Idle
    /\ calls' = [calls EXCEPT ![c] =
            [op |-> "remove_padding", pc |-> "done", blocks |-> blocks,
             padding_positions |-> padding_positions,
             result |-> RemovePadding(blocks, padding_positions)]]
    /\ UNCHANGED <<service, rngs, web>>

\* The positions a metadata can hold: any length up to MaxBlocks, any
\* values up to MaxBlocks + 1, in any order.
PosSeqs == UNION {[1..m -> 0..(MaxBlocks + 1)] : m \in 0..MaxBlocks}

\* The draws of a turn: a draw that is not 0 modulo 3 inserts nothing, so
\* the block is left out of the choice.
NextPad ==
    \/ \E blocks \in BlockLists : calls[2] = Idle /\ AddPadStart(1, blocks)
    \/ \E draw \in Draws :
            \E pad \in (IF draw % 3 = 0 THEN Decoys ELSE {<<>>}) :
                AddPadStep(1, draw, pad)
    \/ AddPadReturn(1)
    \/ /\ calls[1].op = "add_padding" /\ calls[1].pc = "done"
       /\ RemovePad(2, calls[1].result.val[1], calls[1].result.val[2])
    \/ \E blocks \in BlockLists, padding_positions \in PosSeqs :
            calls[1] = Idle /\ RemovePad(2, blocks, padding_positions)
    \/ \E c \in Calls : (c = 1 => calls[2] = Idle) /\ Return(c)

SpecPad == Init /\ [][NextPad]_vars

(***************************************************************************)
(* decrypt with steps 4 to 8 taken one at a time, on the frame of an       *)
(* encrypt call and on frames a holder of the key builds around the same   *)
(* blocks with other metadata.                                             *)
(***************************************************************************)
DecUnpad(c) ==
    /\ calls[c].op = "decrypt" /\ calls[c].pc = "unwrap"
    /\ LET unpadded == RemovePadding(calls[c].blocks,
                                     calls[c].metadata.padding_positions)
       IN  calls' = IF unpadded.ok
                    THEN With(c, [pc |-> "unshuffle", unpadded |-> unpadded.val])
                    ELSE With(c, [pc |-> "done", result |-> unpadded])
    /\ UNCHANGED <<service, rngs, web>>

DecUnshuffle(c) ==
    /\ calls[c].op = "decrypt" /\ calls[c].pc = "unshuffle"
    /\ LET unshuffled == ReversePermutation(calls[c].unpadded,
                                            calls[c].metadata.permutation)
       IN  calls' = IF unshuffled.ok
                    THEN With(c, [pc |-> "merge", unshuffled |-> unshuffled.val])
                    ELSE With(c, [pc |-> "done", result |-> unshuffled])
    /\ UNCHANGED <<service, rngs, web>>

\* Step 6: merged_len is the length of the buffer before the truncate.
DecMerge(c) ==
    /\ calls[c].op = "decrypt" /\ calls[c].pc = "merge"
    /\ LET merged == MergeBlocks(calls[c].unshuffled, BLOCK_SIZE)
           ciphertext == TruncateToOriginal(merged, calls[c].metadata.original_len)
       IN  calls' = IF ciphertext.ok
                    THEN With(c, [pc |-> "open", merged_len |-> Len(merged),
                                  ciphertext |-> ciphertext.val])
                    ELSE With(c, [pc |-> "done", merged_len |-> Len(merged),
                                  result |-> ciphertext])
    /\ UNCHANGED <<service, rngs, web>>

\* Steps 7 and 8.
DecOpen(c) ==
    /\ calls[c].op = "decrypt" /\ calls[c].pc = "open"
    /\ LET aes_decrypted == AesDecrypt(KeyAt(c), calls[c].ciphertext)
       IN  calls' = With(c, [pc |-> "done", aead |-> 2,
                result |-> IF aes_decrypted.ok
                           THEN Ok(PrivateDecrypt(KeyAt(c), aes_decrypted.val))
                           ELSE aes_decrypted])
    /\ UNCHANGED <<service, rngs, web>>

\* The frame a holder of the key builds from a metadata and block bytes.
Forge(key, nonce, metadata, blocks_data) ==
    <<Len(AesEncrypt(key, nonce, ToJson(metadata))) \div 256,
      Len(AesEncrypt(key, nonce, ToJson(metadata))) % 256>>
        \o AesEncrypt(key, nonce, ToJson(metadata)) \o blocks_data

\* The original_len values put into a forged metadata: around the true
\* one, around the length of the real blocks, and 0.
ForgedLens(m, n_blocks) ==
    {0, m.original_len - 1, m.original_len + 1,
     n_blocks * BLOCK_SIZE, n_blocks * BLOCK_SIZE + 1}

\* The frame of encrypt call f, and that frame with another original_len.
UnwrapData(f) ==
    {calls[f].result.val}
        \cup {Forge(service[calls[f].svc], calls[f].nonces[2],
                    [calls[f].metadata EXCEPT !.original_len = l],
                    Drop(calls[f].result.val, MetaEnd(f))) :
                l \in ForgedLens(calls[f].metadata, calls[f].n_blocks)}

NextUnwrap ==
    \/ \E key \in Keys : FromKey(1, key)
    \/ \E p \in PlainTexts, n \in NoncePairs : Encrypt(1, 1, p, n)
    \/ /\ calls[1].pc = "done"
       /\ \E data \in UnwrapData(1) : DecStart(2, 1, data)
    \/ DecHeader(2)
    \/ DecMetadata(2)
    \/ DecSplit(2)
    \/ DecUnpad(2)
    \/ DecUnshuffle(2)
    \/ DecMerge(2)
    \/ DecOpen(2)
    \/ Return(2)

SpecUnwrap == Init /\ [][NextUnwrap]_vars

(***************************************************************************)
(* aes_encrypt and aes_decrypt on their own.                               *)
(***************************************************************************)
\* A whole aes_encrypt call, with the nonce the system generator returns.
AesEnc(c, s, plaintext, nonce) ==
    /\ calls[c] = Idle
    /\ service[s] # NoKey
    /\ calls' = [calls EXCEPT ![c] =
            [op |-> "aes_encrypt", pc |-> "done", svc |-> s,
             plaintext |-> plaintext, nonce |-> nonce,
             result |-> Ok(AesEncrypt(service[s], nonce, plaintext))]]
    /\ UNCHANGED <<service, rngs, web>>

\* A whole aes_decrypt call on the blob call `from` returned, resized to
\* len bytes after the byte at pos was changed by mask.
AesDec(c, s, from, pos, mask, len) ==
    /\ calls[c] = Idle
    /\ service[s] # NoKey
    /\ calls[from].op = "aes_encrypt"
    /\ LET data == Resize(Tamper(calls[from].result.val, pos, mask), len)
       IN  calls' = [calls EXCEPT ![c] =
                [op |-> "aes_decrypt", pc |-> "done", svc |-> s, data |-> data,
                 from |-> from, pos |-> pos, mask |-> mask, len |-> len,
                 result |-> AesDecrypt(service[s], data)]]
    /\ UNCHANGED <<service, rngs, web>>

\* The lengths a blob of n bytes is resized to: up to the nonce and one
\* more, and around n.
BlobLens(n) == (0..(NONCE_LEN + 1)) \cup ((n - MaxCut)..(n + MaxCut))

NextAes ==
    \/ \E s \in Services, key \in Keys : calls[1] = Idle /\ FromKey(s, key)
    \/ \E p \in PlainTexts, n \in NoncePairs : AesEnc(1, 1, p, n[1])
    \/ /\ calls[1].pc = "done"
       /\ \E s \in Services : AesDec(2, s, 1, 0, 1, FrameLen(1))
    \/ /\ calls[1].pc = "done"
       /\ \E pos \in 1..FrameLen(1), mask \in Masks :
                AesDec(2, 1, 1, pos, mask, FrameLen(1))
    \/ /\ calls[1].pc = "done"
       /\ \E len \in BlobLens(FrameLen(1)) \ {FrameLen(1)} :
                AesDec(2, 1, 1, 0, 1, len)
    \/ Return(2)

SpecAes == Init /\ [][NextAes]_vars

(***************************************************************************)
(* The WebSocket handlers.  Every connection runs handle_socket, which     *)
(* spawns recv_task and send_task, waits for one of them to end and then   *)
(* cleans up.  The tasks run on the worker threads of the runtime, and the *)
(* two maps of AppState are behind std::sync::Mutex: a task that locks a   *)
(* mutex another task holds waits, holding what it holds, until the mutex  *)
(* is released.  One action is one step between two lock operations.       *)
(***************************************************************************)
Task(c, name) == <<c, name>>

\* Task `name` of connection c moves to pc, with user_id as its local.
Goto(c, name, pc, user_id) ==
    tasks' = [tasks EXCEPT ![c][name] = [pc |-> pc, user_id |-> user_id]]

\* Mutex::lock() returns once nobody holds mutex m; task t holds it then.
Lock(m, t) ==
    /\ state[m].owner = NoTask
    /\ state' = [state EXCEPT ![m].owner = t]

\* handle_socket up to the select!: both tasks are spawned.
Connect(c) ==
    /\ tasks[c].handle_socket.pc = "closed"
    /\ tasks' = [tasks EXCEPT ![c] =
            [handle_socket |-> [pc |-> "select", user_id |-> NoUser],
             recv_task |-> [pc |-> "next", user_id |-> NoUser],
             send_task |-> "running",
             identified |-> {}, notified |-> NoUser]]
    /\ UNCHANGED <<service, calls, rngs, state>>

\* recv_task receives {"type": "identify", "user_id": user_id}.
RecvIdentify(c, user_id) ==
    /\ tasks[c].recv_task.pc = "next"
    /\ Goto(c, "recv_task", "lock_clients", user_id)
    /\ UNCHANGED <<service, calls, rngs, state>>

\* receiver.next() returns None or an error: recv_task ends.
RecvEnd(c) ==
    /\ tasks[c].recv_task.pc = "next"
    /\ Goto(c, "recv_task", "ended", NoUser)
    /\ UNCHANGED <<service, calls, rngs, state>>

\* let mut clients_map = state_clone.clients.lock().unwrap();
IdentifyLockClients(c) ==
    /\ tasks[c].recv_task.pc = "lock_clients"
    /\ Lock("clients", Task(c, "recv_task"))
    /\ Goto(c, "recv_task", "insert_client", tasks[c].recv_task.user_id)
    /\ UNCHANGED <<service, calls, rngs>>

\* clients_map.insert(user_id, client_tx.clone());
IdentifyInsertClient(c) ==
    /\ tasks[c].recv_task.pc = "insert_client"
    /\ state' = [state EXCEPT !.clients.map[tasks[c].recv_task.user_id] = c]
    /\ tasks' = [tasks EXCEPT
            ![c].recv_task.pc = "lock_user_map",
            ![c].identified = @ \cup {tasks[c].recv_task.user_id}]
    /\ UNCHANGED <<service, calls, rngs>>

\* state_clone.client_user_map.lock().unwrap(), clients_map still held.
IdentifyLockUserMap(c) ==
    /\ tasks[c].recv_task.pc = "lock_user_map"
    /\ Lock("client_user_map", Task(c, "recv_task"))
    /\ Goto(c, "recv_task", "insert_user", tasks[c].recv_task.user_id)
    /\ UNCHANGED <<service, calls, rngs>>

\* .insert(client_id, user_id); the guard is a temporary of the statement
\* and is dropped at its end.
IdentifyInsertUser(c) ==
    /\ tasks[c].recv_task.pc = "insert_user"
    /\ state' = [state EXCEPT
            !.client_user_map.map[ClientId(c)] = tasks[c].recv_task.user_id,
            !.client_user_map.owner = NoTask]
    /\ Goto(c, "recv_task", "unlock_clients", tasks[c].recv_task.user_id)
    /\ UNCHANGED <<service, calls, rngs>>

\* The end of the if-let block drops clients_map; continue.
IdentifyUnlockClients(c) ==
    /\ tasks[c].recv_task.pc = "unlock_clients"
    /\ state' = [state EXCEPT !.clients.owner = NoTask]
    /\ Goto(c, "recv_task", "next", NoUser)
    /\ UNCHANGED <<service, calls, rngs>>

\* client_rx.recv() or sender.send() fails: send_task ends.
SendEnd(c) ==
    /\ tasks[c].send_task = "running"
    /\ tasks' = [tasks EXCEPT ![c].send_task = "ended"]
    /\ UNCHANGED <<service, calls, rngs, state>>

\* tokio::select! returns when either task has ended.  The other task is
\* not aborted: dropping its JoinHandle detaches it.
Select(c) ==
    /\ tasks[c].handle_socket.pc = "select"
    /\ tasks[c].recv_task.pc = "ended" \/ tasks[c].send_task = "ended"
    /\ Goto(c, "handle_socket", "lock_clients", NoUser)
    /\ UNCHANGED <<service, calls, rngs, state>>

\* let mut clients = state.clients.lock().unwrap();   (first block)
CleanupLockClients(c) ==
    /\ tasks[c].handle_socket.pc = "lock_clients"
    /\ Lock("clients", Task(c, "handle_socket"))
    /\ Goto(c, "handle_socket", "remove_client", NoUser)
    /\ UNCHANGED <<service, calls, rngs>>

\* clients.remove(&client_id); the block ends and drops the guard.
CleanupRemoveClient(c) ==
    /\ tasks[c].handle_socket.pc = "remove_client"
    /\ state' = [state EXCEPT !.clients.map[ClientId(c)] = NoSender,
                              !.clients.owner = NoTask]
    /\ Goto(c, "handle_socket", "lock_user_map", NoUser)
    /\ UNCHANGED <<service, calls, rngs>>

\* let mut cmap = state.client_user_map.lock().unwrap();   (second block)
CleanupLockUserMap(c) ==
    /\ tasks[c].handle_socket.pc = "lock_user_map"
    /\ Lock("client_user_map", Task(c, "handle_socket"))
    /\ Goto(c, "handle_socket", "remove_user", NoUser)
    /\ UNCHANGED <<service, calls, rngs>>

\* if let Some(user_id) = cmap.remove(&client_id)
CleanupRemoveUser(c) ==
    /\ tasks[c].handle_socket.pc = "remove_user"
    /\ LET user_id == state.client_user_map.map[ClientId(c)]
       IN  /\ state' = [state EXCEPT !.client_user_map.map[ClientId(c)] = NoUser]
           /\ IF user_id # NoUser
              THEN Goto(c, "handle_socket", "lock_clients_again", user_id)
              ELSE Goto(c, "handle_socket", "unlock_user_map", NoUser)
    /\ UNCHANGED <<service, calls, rngs>>

\* let mut clients = state.clients.lock().unwrap();, cmap still held.
CleanupLockClientsAgain(c) ==
    /\ tasks[c].handle_socket.pc = "lock_clients_again"
    /\ Lock("clients", Task(c, "handle_socket"))
    /\ Goto(c, "handle_socket", "remove_sender", tasks[c].handle_socket.user_id)
    /\ UNCHANGED <<service, calls, rngs>>

\* clients.remove(&user_id); the if-let block ends and drops the guard.
CleanupRemoveSender(c) ==
    /\ tasks[c].handle_socket.pc = "remove_sender"
    /\ state' = [state EXCEPT
            !.clients.map[tasks[c].handle_socket.user_id] = NoSender,
            !.clients.owner = NoTask]
    /\ Goto(c, "handle_socket", "unlock_user_map", NoUser)
    /\ UNCHANGED <<service, calls, rngs>>

\* The second block ends and drops cmap; handle_socket returns.
CleanupUnlockUserMap(c) ==
    /\ tasks[c].handle_socket.pc = "unlock_user_map"
    /\ state' = [state EXCEPT !.client_user_map.owner = NoTask]
    /\ Goto(c, "handle_socket", "done", NoUser)
    /\ UNCHANGED <<service, calls, rngs>>

NextWs ==
    \/ \E c \in Conns : Connect(c)
    \/ \E c \in Conns, user_id \in UserIds : RecvIdentify(c, user_id)
    \/ \E c \in Conns : RecvEnd(c)
    \/ \E c \in Conns : IdentifyLockClients(c)
    \/ \E c \in Conns : IdentifyInsertClient(c)
    \/ \E c \in Conns : IdentifyLockUserMap(c)
    \/ \E c \in Conns : IdentifyInsertUser(c)
    \/ \E c \in Conns : IdentifyUnlockClients(c)
    \/ \E c \in Conns : SendEnd(c)
    \/ \E c \in Conns : Select(c)
    \/ \E c \in Conns : CleanupLockClients(c)
    \/ \E c \in Conns : CleanupRemoveClient(c)
    \/ \E c \in Conns : CleanupLockUserMap(c)
    \/ \E c \in Conns : CleanupRemoveUser(c)
    \/ \E c \in Conns : CleanupLockClientsAgain(c)
    \/ \E c \in Conns : CleanupRemoveSender(c)
    \/ \E c \in Conns : CleanupUnlockUserMap(c)

SpecWs == Init /\ [][NextWs]_vars

(***************************************************************************)
(* The WebSocket handlers together with a reader of the clients map:       *)
(* send_friend_request_handler looks the receiver up and sends the         *)
(* notification on the sender it finds.                                    *)
(***************************************************************************)
\* if let Some(tx) = state.clients.lock().unwrap().get(&to_user_id)
\*     { let _ = tx.send(notify); }
\* The send reaches a connection whose send_task still holds client_rx.
Notify(to_user_id) ==
    /\ state.clients.owner = NoTask
    /\ LET tx == state.clients.map[to_user_id]
       IN  /\ tx # NoSender
           /\ tasks[tx].send_task = "running"
           /\ tasks' = [tasks EXCEPT ![tx].notified = to_user_id]
    /\ UNCHANGED <<service, calls, rngs, state>>

NextClients ==
    \/ NextWs
    \/ \E to_user_id \in UserIds : Notify(to_user_id)

SpecClients == Init /\ [][NextClients]_vars

(***************************************************************************)
(* Vocabulary of the claims.                                               *)
(***************************************************************************)
\* The kind of an error, by the message the code builds it from: the
\* taxonomy of the specification's error handling section.
ErrorKind(err) ==
    CASE err \in {"aes_decrypt_failed", "nonce_missing"} -> "CryptoError"
      [] err \in {"hex_decode", "key_len", "data_too_short",
                  "metadata_len_out_of_range", "blocks_not_aligned",
                  "padding_pos_out_of_range", "perm_len_mismatch",
                  "perm_index_out_of_range", "ciphertext_too_short"}
            -> "ValidationError"
      [] err = "metadata_too_long" -> "EncodingError"
      [] err = "panic" -> "Panic"
      [] OTHER -> "Other"

IsEnc(c) == calls[c].op = "encrypt" /\ calls[c].pc = "done"

IsDec(c) == calls[c].op = "decrypt" /\ calls[c].pc = "done"

KeyOf(c) == service[calls[c].svc]

\* Call c decrypted the frame of call calls[c].from as it was returned.
Untouched(c) == calls[c].pos = 0 /\ calls[c].len = FrameLen(calls[c].from)

\* Call c decrypted that frame with exactly one byte changed, in the
\* metadata region or in the block region.
OneByteChanged(c) == calls[c].pos >= 3 /\ calls[c].len = FrameLen(calls[c].from)

Failed(c, kinds) == ~calls[c].result.ok /\ ErrorKind(calls[c].result.err) \in kinds

\* The byte at position pos of the frame of encrypt call f carries nothing
\* that decrypt reads: it lies in a decoy block, or in the zero fill behind
\* original_len in the last real block.
InertByte(f, pos) ==
    LET m == calls[f].metadata
        at == pos - MetaEnd(f) - 1
        b == at \div BLOCK_SIZE
        decoys == {m.padding_positions[i] : i \in 1..Len(m.padding_positions)}
        k == b - Cardinality({q \in decoys : q < b})
    IN  /\ pos > MetaEnd(f)
        /\ \/ b \in decoys
           \/ m.permutation[k + 1] * BLOCK_SIZE + (at % BLOCK_SIZE) >= m.original_len

C2_AnyChangeFails ==
    \A c \in Calls :
        (IsDec(c) /\ OneByteChanged(c) /\ KeyOf(c) = KeyOf(calls[c].from))
            => Failed(c, {"CryptoError", "ValidationError"})

(***************************************************************************)
(* What decrypt does on a frame with one byte changed: it never returns a  *)
(* plaintext other than the original; it fails with CryptoError or         *)
(* ValidationError when the byte lies in the metadata region or in a real  *)
(* block below original_len, and it returns the original plaintext when    *)
(* the byte lies in a decoy block or in the zero fill of the last block.   *)
(***************************************************************************)
C2_ChangeDetectedOrInert ==
    \A c \in Calls :
        (IsDec(c) /\ OneByteChanged(c) /\ KeyOf(c) = KeyOf(calls[c].from))
            => IF InertByte(calls[c].from, calls[c].pos)
               THEN calls[c].result = Ok(calls[calls[c].from].plaintext)
               ELSE Failed(c, {"CryptoError", "ValidationError"})

C2_Witness ==
    \E c \in Calls :
        /\ IsDec(c) /\ OneByteChanged(c) /\ KeyOf(c) = KeyOf(calls[c].from)
        /\ calls[c].pos > MetaEnd(calls[c].from)
        /\ ~InertByte(calls[c].from, calls[c].pos)
        /\ calls[calls[c].from].metadata.padding_positions # <<>>
        /\ Failed(c, {"CryptoError"})

(***************************************************************************)
(* C3  Key-bound secrecy: decrypt of a frame under a key other than the    *)
(* one it was made with fails with CryptoError, at the verification of the *)
(* metadata (the first and only aes_decrypt of the call).                  *)
(***************************************************************************)
C3_WrongKeyFails ==
    \A c \in Calls :
        (IsDec(c) /\ Untouched(c) /\ KeyOf(c) # KeyOf(calls[c].from))
            => /\ Failed(c, {"CryptoError"})
               /\ calls[c].result.err = "aes_decrypt_failed"
               /\ calls[c].aead = 1

C3_Witness ==
    \E c \in Calls :
        /\ IsDec(c) /\ Untouched(c) /\ KeyOf(c) # KeyOf(calls[c].from)
        /\ calls[c].result = Err("aes_decrypt_failed")

(***************************************************************************)
(* C4  Deterministic shape: two encrypt calls under the same key on        *)
(* plaintexts of the same length have the same number of blocks, the same  *)
(* permutation and the same padding positions, whatever the plaintexts and *)
(* the nonces are.                                                         *)
(***************************************************************************)
C4_SameShape ==
    \A c, d \in Calls :
        (IsEnc(c) /\ IsEnc(d) /\ KeyOf(c) = KeyOf(d)
            /\ Len(calls[c].plaintext) = Len(calls[d].plaintext))
            => /\ calls[c].n_blocks = calls[d].n_blocks
               /\ calls[c].metadata.permutation = calls[d].metadata.permutation
               /\ calls[c].metadata.padding_positions
                    = calls[d].metadata.padding_positions

C4_Witness ==
    \E c, d \in Calls :
        /\ IsEnc(c) /\ IsEnc(d) /\ KeyOf(c) = KeyOf(d)
        /\ Len(calls[c].plaintext) = Len(calls[d].plaintext)
        /\ calls[c].plaintext # calls[d].plaintext
        /\ calls[c].nonces # calls[d].nonces
        /\ calls[c].metadata.padding_positions # <<>>
        /\ calls[c].n_blocks = 3

(***************************************************************************)
(* C5  As claimed: a frame whose block region is not a multiple of 16      *)
(* bytes makes decrypt fail with ValidationError, whatever its metadata    *)
(* region holds.                                                           *)
(***************************************************************************)
DeclaredEnd(data) == 2 + data[1] * 256 + data[2]

\* data has a header and the metadata it declares, and a block region that
\* is not a multiple of BLOCK_SIZE.
Misaligned(data) ==
    /\ Len(data) >= 2
    /\ DeclaredEnd(data) <= Len(data)
    /\ (Len(data) - DeclaredEnd(data)) % BLOCK_SIZE # 0

MetadataRegion(data) == SubSeq(data, 3, DeclaredEnd(data))

Overdeclared(data) == Len(data) >= 2 /\ DeclaredEnd(data) > Len(data)

C6_ShortOrOverdeclared ==
    \A c \in Calls :
        (IsDec(c) /\ (Len(calls[c].data) < 2 \/ Overdeclared(calls[c].data)))
            => /\ Failed(c, {"ValidationError"})
               /\ calls[c].aead = 0
               /\ calls[c].result.err =
                    (IF Len(calls[c].data) < 2 THEN "data_too_short"
                     ELSE "metadata_len_out_of_range")

C6_Witness ==
    \E c \in Calls :
        /\ IsDec(c) /\ Overdeclared(calls[c].data)
        /\ calls[c].len = FrameLen(calls[c].from)
        /\ calls[c].result = Err("metadata_len_out_of_range")

(***************************************************************************)
(* C7  Frame encoding: encrypt fails with EncodingError, and returns no    *)
(* frame, when the encrypted metadata is longer than 65535 bytes;          *)
(* otherwise the frame starts with the big-endian length L of the          *)
(* encrypted metadata, followed by the encrypted metadata and the blocks,  *)
(* and the header step of decrypt recovers L, the encrypted metadata and   *)
(* the block bytes.                                                        *)
(***************************************************************************)
C7_FrameEncoding ==
    /\ \A c \in Calls :
          IsEnc(c) =>
            LET L == Len(calls[c].encrypted_metadata)
                frame == calls[c].result.val
            IN  IF L > 65535
                THEN calls[c].result = Err("metadata_too_long")
                        /\ ErrorKind(calls[c].result.err) = "EncodingError"
                ELSE /\ calls[c].result.ok
                     /\ frame[1] = L \div 256 /\ frame[2] = L % 256
                     /\ frame[1] \in Byte /\ frame[2] \in Byte
                     /\ SubSeq(frame, 3, 2 + L) = calls[c].encrypted_metadata
                     /\ Drop(frame, 2 + L) = Concat(calls[c].padded_blocks)
    /\ \A c \in Calls :
          (calls[c].op = "decrypt" /\ calls[c].pc # "header" /\ IsEnc(1)
                /\ calls[1].result.ok /\ calls[c].data = calls[1].result.val)
            => /\ calls[c].pc = "metadata"
               /\ calls[c].header.metadata_len = Len(calls[1].encrypted_metadata)
               /\ calls[c].header.encrypted_metadata = calls[1].encrypted_metadata
               /\ calls[c].header.blocks_data = Concat(calls[1].padded_blocks)

C7_Witness ==
    /\ IsEnc(1) /\ Len(calls[1].encrypted_metadata) = 65535
    /\ calls[2].op = "decrypt" /\ calls[2].pc = "metadata"
    /\ calls[2].header.metadata_len = 65535

(***************************************************************************)
(* C8  from_hex returns Ok exactly for the strings of 64 hex digits: a     *)
(* string of another length (63 and 65 included) or with a character that  *)
(* is no hex digit is rejected with ValidationError, and no service is     *)
(* constructed.                                                            *)
(***************************************************************************)
IsHexChar(ch) ==
    ch \in (48..57) \cup (65..70) \cup (97..102)

C8_FromHexValidates ==
    \A c \in Calls :
        (calls[c].op = "from_hex" /\ calls[c].pc = "done") =>
            LET str == calls[c].hex_key
                wellFormed == Len(str) = 64 /\ \A i \in 1..Len(str) : IsHexChar(str[i])
            IN  IF wellFormed
                THEN /\ calls[c].result.ok
                     /\ Len(calls[c].result.val) = 32
                     /\ service[calls[c].svc] = calls[c].result.val
                ELSE /\ Failed(c, {"ValidationError"})
                     /\ service[calls[c].svc] = NoKey

C8_Witness ==
    \E c \in Calls :
        /\ calls[c].op = "from_hex" /\ calls[c].pc = "done"
        /\ Len(calls[c].hex_key) = 64
        /\ calls[c].result = Err("hex_decode")

(***************************************************************************)
(* C9  Key hex round trip: private_key_hex() is 64 lowercase hex digits    *)
(* for every service, and for a service made by from_hex(s) it is s in     *)
(* lower case.                                                             *)
(***************************************************************************)
C9_HexRoundTrip ==
    /\ \A d \in Calls :
        (calls[d].op = "from_hex" /\ Len(calls[d].hex_key) = 64
            /\ \A i \in 1..64 : IsHexChar(calls[d].hex_key[i]))
            => calls[d].result.ok
    /\ \A c \in Calls :
        (calls[c].op = "private_key_hex" /\ calls[c].pc = "done") =>
            /\ Len(calls[c].result) = 64
            /\ \A i \in 1..Len(calls[c].result) :
                    calls[c].result[i] \in (48..57) \cup (97..102)
            /\ \A d \in Calls :
                    (calls[d].op = "from_hex" /\ calls[d].svc = calls[c].svc
                        /\ calls[d].result.ok)
                        => calls[c].result = Lower(calls[d].hex_key)

C9_Witness ==
    \E c, d \in Calls :
        /\ calls[c].op = "private_key_hex" /\ calls[c].pc = "done"
        /\ calls[d].op = "from_hex" /\ calls[d].svc = calls[c].svc
        /\ calls[d].result.ok
        /\ calls[d].hex_key # Lower(calls[d].hex_key)
        /\ calls[d].hex_key # Upper(calls[d].hex_key)

(***************************************************************************)
(* C10  Call independence: whatever calls overlap on one shared service,   *)
(* and whatever calls returned or failed before, a call returns what the   *)
(* same call returns when it runs alone from start to end.                 *)
(***************************************************************************)
C10_CallsIndependent ==
    \A c \in Calls :
        calls[c].pc = "done" =>
            IF calls[c].op = "encrypt"
            THEN LET alone == EncryptFn(KeyAt(c), calls[c].plaintext, calls[c].nonces)
                 IN  /\ calls[c].result = alone.result
                     /\ calls[c].metadata = alone.metadata
            ELSE LET alone == DecryptFn(KeyAt(c), calls[c].data)
                 IN  /\ calls[c].result = alone.result
                     /\ calls[c].aead = alone.aead

C10_Witness ==
    /\ calls[1].op = "encrypt" /\ calls[1].pc = "done" /\ calls[1].result.ok
    /\ calls[2].op = "encrypt" /\ calls[2].pc = "metadata"
    /\ Len(calls[1].plaintext) # Len(calls[2].plaintext)
    /\ rngs[2].pos > 0

(***************************************************************************)
(* C11  generate_permutation(n) holds, at every turn of its loop and when  *)
(* it returns, a sequence of length n with each integer of [0, n) exactly  *)
(* once, whatever the generator draws; it takes n - 1 turns (none for      *)
(* n = 0) and never indexes outside the sequence.  In encrypt, n is the    *)
(* number of blocks the payload was split into.                            *)
(***************************************************************************)
IsPermutation(p, n) ==
    /\ Len(p) = n
    /\ \A v \in 0..(n - 1) : Cardinality({k \in 1..n : p[k] = v}) = 1

C11_PermutationIsBijection ==
    /\ \A c \in Calls :
          calls[c].op = "generate_permutation" =>
            /\ IsPermutation(calls[c].perm, calls[c].len)
            /\ calls[c].pc = "done" =>
                    /\ calls[c].result = Ok(calls[c].perm)
                    /\ calls[c].turns = (IF calls[c].len = 0 THEN 0
                                         ELSE calls[c].len - 1)
    /\ \A c \in Calls :
          IsEnc(c) =>
            /\ IsPermutation(calls[c].metadata.permutation, calls[c].n_blocks)
            /\ calls[c].n_blocks
                    = (calls[c].metadata.original_len + BLOCK_SIZE - 1) \div BLOCK_SIZE

C11_Witness ==
    \E c \in Calls :
        /\ calls[c].op = "generate_permutation" /\ calls[c].pc = "done"
        /\ calls[c].result = Ok(<<2, 0, 1>>)

(***************************************************************************)
(* C12  Permutation round trip: for a list B of n blocks and a permutation *)
(* perm of [0, n), apply_permutation returns shuffled with shuffled[k] =   *)
(* B[perm[k]], and reverse_permutation(shuffled, perm) returns Ok(B).      *)
(***************************************************************************)
C12_PermutationRoundTrip ==
    /\ \A c \in Calls :
          calls[c].op = "apply_permutation" =>
            /\ calls[c].result.ok
            /\ Len(calls[c].result.val) = Len(calls[c].blocks)
            /\ \A k \in 1..Len(calls[c].blocks) :
                    calls[c].result.val[k]
                        = calls[c].blocks[calls[c].permutation[k] + 1]
    /\ \A c, d \in Calls :
          (calls[c].op = "apply_permutation" /\ calls[d].op = "reverse_permutation"
                /\ calls[d].blocks = calls[c].result.val
                /\ calls[d].permutation = calls[c].permutation)
            => calls[d].result = Ok(calls[c].blocks)

C12_Witness ==
    \E c, d \in Calls :
        /\ calls[c].op = "apply_permutation" /\ calls[d].op = "reverse_permutation"
        /\ calls[c].permutation = <<1, 2, 0>>
        /\ calls[c].blocks[1] # calls[c].blocks[2]
        /\ calls[d].blocks = calls[c].result.val
        /\ calls[d].permutation = calls[c].permutation
        /\ calls[d].result.ok

(***************************************************************************)
(* C16  reverse_permutation returns ValidationError, and no block list,    *)
(* when the number of blocks differs from the length of the permutation    *)
(* or a value of the permutation is not below the number of blocks; it     *)
(* panics on no sequence of indices.                                       *)
(***************************************************************************)
C16_ReverseRejects ==
    \A c \in Calls :
        calls[c].op = "reverse_permutation" =>
            LET n == Len(calls[c].blocks)
                p == calls[c].permutation
            IN  /\ (Len(p) # n \/ \E k \in 1..Len(p) : p[k] >= n)
                        => Failed(c, {"ValidationError"})
                /\ calls[c].result.ok \/ Failed(c, {"ValidationError"})
                /\ Len(p) # n => calls[c].result = Err("perm_len_mismatch")

C16_Witness ==
    \E c \in Calls :
        /\ calls[c].op = "reverse_permutation"
        /\ Len(calls[c].blocks) = 3
        /\ calls[c].permutation = <<1, 0, 3>>
        /\ calls[c].result = Err("perm_index_out_of_range")

(***************************************************************************)
(* C17  Whenever reverse_permutation returns Ok for n blocks of 16 bytes,  *)
(* the permutation is a bijection on [0, n) and the returned list holds    *)
(* every input block exactly once: n blocks of 16 bytes, 16 * n bytes when *)
(* merged.                                                                 *)
(***************************************************************************)
C17_OkMeansBijection ==
    \A c \in Calls :
        (calls[c].op = "reverse_permutation" /\ calls[c].result.ok) =>
            LET n == Len(calls[c].blocks)
                r == calls[c].result.val
            IN  /\ IsPermutation(calls[c].permutation, n)
                /\ Len(r) = n
                /\ \A k \in 1..n : Len(r[k]) = BLOCK_SIZE
                /\ Len(MergeBlocks(r, BLOCK_SIZE)) = BLOCK_SIZE * n
                /\ \A j \in 1..n :
                        Cardinality({k \in 1..n : r[k] = calls[c].blocks[j]})
                            = Cardinality({k \in 1..n :
                                    calls[c].blocks[k] = calls[c].blocks[j]})

(***************************************************************************)
(* What reverse_permutation does on a sequence of indices: it returns Ok   *)
(* exactly when the lengths agree and every index is below the number of   *)
(* blocks; an index listed twice leaves the later block in its slot and    *)
(* another slot empty, so the merged buffer is shorter than 16 * n.        *)
(***************************************************************************)
C17_OkMeansInRange ==
    \A c \in Calls :
        calls[c].op = "reverse_permutation" =>
            LET n == Len(calls[c].blocks)
                p == calls[c].permutation
                r == calls[c].result.val
            IN  /\ calls[c].result.ok
                    <=> (Len(p) = n /\ \A k \in 1..Len(p) : p[k] < n)
                /\ calls[c].result.ok =>
                    /\ Len(r) = n
                    /\ \A v \in 0..(n - 1) :
                        LET at == {k \in 1..n : p[k] = v}
                        IN  r[v + 1] = IF at = {} THEN <<>>
                                       ELSE calls[c].blocks[
                                            CHOOSE k \in at : \A m \in at : m <= k]

C17_Witness ==
    \E c \in Calls :
        /\ calls[c].op = "reverse_permutation"
        /\ Len(calls[c].blocks) = 3
        /\ calls[c].permutation = <<0, 1, 1>>
        /\ calls[c].result.ok
        /\ calls[c].result.val[3] = <<>>

(***************************************************************************)
(* C13  Padding round trip: when add_padding(B) returns (padded,           *)
(* positions), remove_padding(padded, positions) returns Ok(B): every      *)
(* position is a valid index at the moment it is removed, taken from the   *)
(* largest to the smallest, and the real blocks keep their order.          *)
(***************************************************************************)
C13_PaddingRoundTrip ==
    \A c, d \in Calls :
        (calls[c].op = "add_padding" /\ calls[c].pc = "done"
            /\ calls[d].op = "remove_padding"
            /\ calls[d].blocks = calls[c].result.val[1]
            /\ calls[d].padding_positions = calls[c].result.val[2])
            => /\ calls[d].result = Ok(calls[c].input)
               /\ \A k \in 1..Len(calls[d].padding_positions) :
                    calls[d].padding_positions[k]
                        < Len(calls[d].blocks)
                            - Cardinality({m \in 1..Len(calls[d].padding_positions) :
                                calls[d].padding_positions[m]
                                    > calls[d].padding_positions[k]})

C13_Witness ==
    \E c, d \in Calls :
        /\ calls[c].op = "add_padding" /\ calls[c].pc = "done"
        /\ calls[d].op = "remove_padding"
        /\ calls[d].blocks = calls[c].result.val[1]
        /\ calls[d].padding_positions = calls[c].result.val[2]
        /\ calls[d].padding_positions = <<0, 2, 4>>
        /\ calls[d].result.ok

(***************************************************************************)
(* C14  add_padding on N blocks ends after exactly N draws, one before     *)
(* each real block, whatever is drawn.  A decoy is inserted directly       *)
(* before a real block exactly when the draw of that block is 0 modulo 3:  *)
(* the output keeps the real blocks in order, has at most one decoy before *)
(* each and none at its end, at most N decoys, and the recorded positions  *)
(* are strictly increasing and are the indices of the decoys.              *)
(***************************************************************************)
\* The index in the output of the r-th real block (from 1), given the draws.
RealAt(drawn, r) == r + Cardinality({k \in 1..r : drawn[k] % 3 = 0})

C14_PaddingShape ==
    \A c \in Calls :
        calls[c].op = "add_padding" =>
            LET N == Len(calls[c].input)
                out == calls[c].blocks
                pos == calls[c].padding_positions
                drawn == calls[c].drawn
            IN  /\ Len(drawn) <= N
                /\ calls[c].i <= Len(out) + 1
                \* the blocks not walked yet are the real blocks not drawn for
                /\ Len(out) - calls[c].i = N - Len(drawn)
                    \/ (calls[c].i = Len(out) + 1 /\ Len(drawn) = N)
                /\ calls[c].pc = "done" =>
                    /\ Len(drawn) = N
                    /\ calls[c].result = Ok(<<out, pos>>)
                    /\ Len(pos) <= N
                    /\ Len(out) = N + Len(pos)
                    /\ SelectSeq(out, LAMBDA b : b \notin Decoys) = calls[c].input
                    /\ N > 0 => out[Len(out)] \notin Decoys
                    /\ \A k \in 1..(Len(out) - 1) :
                            out[k] \in Decoys => out[k + 1] \notin Decoys
                    /\ \A k \in 1..(Len(pos) - 1) : pos[k] < pos[k + 1]
                    /\ {pos[k] : k \in 1..Len(pos)}
                            = {k - 1 : k \in {m \in 1..Len(out) : out[m] \in Decoys}}
                    /\ \A r \in 1..N :
                            /\ out[RealAt(drawn, r)] = calls[c].input[r]
                            /\ drawn[r] % 3 = 0
                                <=> (RealAt(drawn, r) > 1
                                     /\ out[RealAt(drawn, r) - 1] \in Decoys)

C14_Witness ==
    \E c \in Calls :
        /\ calls[c].op = "add_padding" /\ calls[c].pc = "done"
        /\ Len(calls[c].input) = 3
        /\ calls[c].padding_positions = <<0, 3>>
        /\ Len(calls[c].blocks) = 5

(***************************************************************************)
(* C18  remove_padding removes one block per listed position, from the     *)
(* largest position to the smallest whatever order they are listed in,     *)
(* and returns ValidationError and no block list as soon as a position is  *)
(* not below the length of the list at the time of its removal; on success *)
(* the result has len(blocks) - len(positions) blocks.                     *)
(***************************************************************************)
\* The largest positions first, by selection: what is left of the list
\* after the positions in the set at (indices into positions) are removed.
RECURSIVE RemoveLargestFirst(_, _, _)
RemoveLargestFirst(blocks, positions, at) ==
    IF at = {} THEN Ok(blocks)
    ELSE LET k == CHOOSE k \in at : \A m \in at : positions[m] <= positions[k]
         IN  IF positions[k] >= Len(blocks) THEN Err("padding_pos_out_of_range")
             ELSE RemoveLargestFirst(
                    SubSeq(blocks, 1, positions[k])
                        \o SubSeq(blocks, positions[k] + 2, Len(blocks)),
                    positions, at \ {k})

C18_RemoveDescending ==
    \A c \in Calls :
        calls[c].op = "remove_padding" =>
            /\ calls[c].result
                = RemoveLargestFirst(calls[c].blocks, calls[c].padding_positions,
                                     1..Len(calls[c].padding_positions))
            /\ calls[c].result.ok
                => Len(calls[c].result.val)
                    = Len(calls[c].blocks) - Len(calls[c].padding_positions)
            /\ ~calls[c].result.ok => Failed(c, {"ValidationError"})

C18_Witness ==
    \E c \in Calls :
        /\ calls[c].op = "remove_padding"
        /\ Len(calls[c].blocks) = 3
        /\ calls[c].padding_positions = <<0, 2>>
        /\ calls[c].result = Ok(<<calls[c].blocks[2]>>)

(***************************************************************************)
(* C15  Length bookkeeping: original_len is the length of the payload's    *)
(* AEAD output, len(P) + 12 + 16; the number of real blocks is             *)
(* ceil(original_len / 16), at least 2; the frame holds that number plus   *)
(* the number of padding positions.  On decrypt of the frame the merged    *)
(* buffer is at most 15 bytes longer than original_len and is cut to       *)
(* original_len; a merged buffer shorter than original_len ends decrypt    *)
(* with ValidationError.                                                   *)
(***************************************************************************)
C15_LengthBookkeeping ==
    /\ \A c \in Calls :
          IsEnc(c) =>
            LET m == calls[c].metadata
            IN  /\ m.original_len = Len(calls[c].plaintext) + 12 + 16
                /\ calls[c].n_blocks * 16 >= m.original_len
                /\ (calls[c].n_blocks - 1) * 16 < m.original_len
                /\ calls[c].n_blocks >= 2
                /\ FrameLen(c) - MetaEnd(c)
                    = 16 * (calls[c].n_blocks + Len(m.padding_positions))
    /\ \A c \in Calls :
          (calls[c].op = "decrypt" /\ calls[c].pc \in {"open", "done"}
                /\ "merged_len" \in DOMAIN calls[c]) =>
            LET m == calls[c].metadata
            IN  /\ IF calls[c].merged_len < m.original_len
                   THEN /\ calls[c].pc = "done"
                        /\ calls[c].result = Err("ciphertext_too_short")
                        /\ Failed(c, {"ValidationError"})
                   ELSE /\ Len(calls[c].ciphertext) = m.original_len
                        /\ calls[c].pc = "done" =>
                                calls[c].result # Err("ciphertext_too_short")
                /\ (IsEnc(1) /\ calls[c].data = calls[1].result.val) =>
                        /\ calls[c].merged_len - m.original_len \in 0..15
                        /\ calls[c].merged_len = 16 * calls[1].n_blocks
                        /\ calls[c].pc = "done" =>
                                calls[c].result = Ok(calls[1].plaintext)
    /\ \A c \in Calls :
          (calls[c].op = "decrypt" /\ calls[c].pc = "done")
            => calls[c].result = DecryptFn(KeyAt(c), calls[c].data).result

C15_Witness ==
    \E c \in Calls :
        /\ calls[c].op = "decrypt" /\ calls[c].pc = "done"
        /\ IsEnc(1) /\ Len(calls[1].plaintext) = 5
        /\ calls[c].merged_len = 48
        /\ calls[c].metadata.original_len = 49
        /\ calls[c].result = Err("ciphertext_too_short")

(***************************************************************************)
(* C19  Authenticated layer: aes_encrypt(p) returns the 12-byte nonce      *)
(* followed by the ciphertext and the tag, and aes_decrypt of that blob    *)
(* under the same key returns p; aes_decrypt fails with CryptoError on a   *)
(* blob shorter than 12 bytes and on a blob whose remainder does not       *)
(* verify: the blob under another key, with a byte changed, cut or         *)
(* extended.                                                               *)
(***************************************************************************)
C19_AesWrapper ==
    /\ \A c \in Calls :
          calls[c].op = "aes_encrypt" =>
            /\ calls[c].result.ok
            /\ Len(calls[c].result.val) = 12 + Len(calls[c].plaintext) + 16
            /\ SubSeq(calls[c].result.val, 1, 12) = calls[c].nonce
    /\ \A c \in Calls :
          calls[c].op = "aes_decrypt" =>
            LET blob == calls[calls[c].from].result.val
            IN  /\ (calls[c].data = blob /\ KeyOf(c) = KeyOf(calls[c].from))
                        => calls[c].result = Ok(calls[calls[c].from].plaintext)
                /\ (calls[c].data # blob \/ KeyOf(c) # KeyOf(calls[c].from))
                        => Failed(c, {"CryptoError"})
                /\ Len(calls[c].data) < 12
                        => calls[c].result = Err("nonce_missing")

C19_Witness ==
    \E c \in Calls :
        /\ calls[c].op = "aes_decrypt"
        /\ calls[calls[c].from].plaintext = Take(Hello, 5)
        /\ calls[c].pos > 12 /\ calls[c].pos <= 17
        /\ calls[c].result = Err("aes_decrypt_failed")


(***************************************************************************)
(* The two mutexes of AppState.                                            *)
(***************************************************************************)
\* The mutex task t is about to lock, "none" when its next step locks none.
NextLock(t) ==
    LET pc == tasks[t[1]][t[2]].pc
    IN  IF pc \in {"lock_clients", "lock_clients_again"} THEN "clients"
        ELSE IF pc = "lock_user_map" THEN "client_user_map"
        ELSE "none"

\* Task t is inside lock() on a mutex another task holds.
Waiting(t) ==
    /\ NextLock(t) # "none"
    /\ state[NextLock(t)].owner # NoTask

\* Tasks a and b each hold one mutex and wait for the one the other holds.
HoldAndWait(a, b) ==
    /\ Waiting(a) /\ state[NextLock(a)].owner = b
    /\ Waiting(b) /\ state[NextLock(b)].owner = a

\* C20: the handlers never deadlock on the two mutexes: in no reachable
\* state does the recv_task of one connection, in its identify step, hold
\* one of the locks and wait for the other while the handle_socket of
\* another connection, in its cleanup, holds that one and waits for the
\* first.  The code breaks this: identify locks clients and then
\* client_user_map, the cleanup of an identified connection locks
\* client_user_map and then clients.
C20_NoDeadlock ==
    \A c, d \in Conns :
        c # d => ~HoldAndWait(Task(c, "recv_task"), Task(d, "handle_socket"))

\* What the code does guarantee: a task that holds a mutex while it waits
\* for the other one is an identify step at its second lock or a cleanup
\* that found a user_id to remove, so a connection that never identified
\* is cleaned up without ever holding one lock and waiting for the other.
C20_WaitsWhileHolding ==
    \A t \in Tasks :
        (Waiting(t) /\ \E m \in {"clients", "client_user_map"} : state[m].owner = t)
            => \/ t[2] = "recv_task" /\ tasks[t[1]].recv_task.pc = "lock_user_map"
               \/ /\ t[2] = "handle_socket"
                  /\ tasks[t[1]].handle_socket.pc = "lock_clients_again"
                  /\ tasks[t[1]].handle_socket.user_id # NoUser

\* Connection 1 identifies while the identified connection 2 is cleaned up,
\* and each holds the lock the other waits for.
C20_Witness ==
    HoldAndWait(Task(1, "recv_task"), Task(2, "handle_socket"))

(***************************************************************************)
(* The clients map against the connections.                                *)
(***************************************************************************)
\* Connection c is open: upgraded, both tasks running, no cleanup begun.
Open(c) ==
    /\ tasks[c].handle_socket.pc = "select"
    /\ tasks[c].recv_task.pc = "next"
    /\ tasks[c].send_task = "running"

\* Connection c is closed: handle_socket has returned.
Closed(c) == tasks[c].handle_socket.pc = "done"

\* No handler is mid-step: every connection is not yet upgraded, open with
\* its recv_task between two messages, or closed with recv_task between two
\* messages or ended.
Quiescent ==
    \A c \in Conns :
        \/ tasks[c].handle_socket.pc = "closed"
        \/ Open(c)
        \/ Closed(c) /\ tasks[c].recv_task.pc \in {"next", "ended"}

\* C21: whenever no handler is mid-step, the clients map has an entry for
\* user U exactly when some still-open connection has identified as U, and
\* the sender of the entry belongs to such a connection.  The code breaks
\* this: the cleanup removes the entry of the user_id it finds in
\* client_user_map, whichever connection's sender the entry holds, and it
\* removes that one entry only.
C21_ClientMapConsistent ==
    Quiescent =>
        \A u \in UserIds :
            LET tx == state.clients.map[u]
            IN  /\ tx # NoSender <=> \E c \in Conns : Open(c) /\ u \in tasks[c].identified
                /\ tx # NoSender => Open(tx) /\ u \in tasks[tx].identified

\* What the code does guarantee: an entry for U holds the sender of a
\* connection, open or not, that identified as U; no entry is keyed by a
\* client_id; client_user_map holds for a connection a user_id it identified
\* as; and a notification for U is sent to a connection that identified as U.
C21_EntriesWereInserted ==
    /\ \A u \in UserIds :
            state.clients.map[u] # NoSender
                => u \in tasks[state.clients.map[u]].identified
    /\ \A c \in Conns :
            /\ state.clients.map[ClientId(c)] = NoSender
            /\ state.client_user_map.map[ClientId(c)] \in tasks[c].identified \cup {NoUser}
            /\ tasks[c].notified \in tasks[c].identified \cup {NoUser}

\* Both connections identified as alice, connection 2 was closed by its
\* client and its cleanup took the entry of connection 1, which is still
\* open.
C21_Witness ==
    /\ Quiescent /\ Open(1) /\ Closed(2)
    /\ tasks[2].recv_task.pc = "ended" /\ tasks[2].send_task = "running"
    /\ "alice" \in tasks[1].identified
    /\ state.clients.map["alice"] = NoSender
=============================================================================
